---- MODULE Spec2Model ----
(***************************************************************************)
(* AwashTube: the data-access module (fetchYouTubeVideos and its in-memory *)
(* cache) and the App component (lists, tabs, player, debounced save to    *)
(* localStorage), as state machines.                                       *)
(***************************************************************************)
EXTENDS Integers, Sequences, FiniteSets, TLC

VARIABLES
    \* youtube.ts
    cache,        \* Map cacheKey -> [timestamp, data]
    now,          \* Date.now(), in ms
    calls,        \* the invocations of fetchYouTubeVideos, by slot
    \* App
    impl,         \* which of the two App components runs
    videos, currentVideo, searchQuery,
    favorites, history, playlist, watchLater,
    activeTab, loading,
    volume, isMuted,
    keys,         \* what the keydown listener closed over: volume, isMuted
    filtered,     \* filteredVideos of the last render: the cards of the grid
    storage,      \* localStorage: key -> text
    timers,       \* the pending setTimeout(saveData, 300) callbacks
    loadPc,       \* loadData: "awaiting" its fetch, or "done"; "crashed" when the
                  \* first render threw and no component is mounted
    uncaught,     \* an exception has escaped loadData
    ops,          \* user operations so far
    \* history variables
    stored,       \* the cache.set events whose five minutes are not over
    tog,          \* the one or two toggles last made in succession
    sinceChange,  \* ms since the save effect's dependencies last changed
    saves,        \* runs of saveData since that change
    burst,        \* changes since the mount in a row, each under 300 ms
                  \* after the one before
    lastSave,     \* what the most recent run of saveData was given
    \* the other component, run side by side on the same operations
    alt           \* its lists, tab and open video; None when it does not run

fetchVars == <<cache, now, calls, stored>>
listVars == <<favorites, history, playlist, watchLater>>
playerVars == <<volume, isMuted, keys>>
\* What the handlers of the lists leave alone.
sideVars == <<alt, volume, isMuted, keys>>
appVars ==
    <<impl, videos, currentVideo, searchQuery, favorites, history, playlist,
      watchLater, activeTab, loading, filtered, storage, timers, loadPc,
      uncaught, ops, tog, sinceChange, saves, burst, lastSave, alt, volume,
      isMuted, keys>>
vars ==
    <<cache, now, calls, stored, impl, videos, currentVideo, searchQuery,
      favorites, history, playlist, watchLater, activeTab, loading, filtered,
      storage, timers, loadPc, uncaught, ops, tog, sinceChange, saves, burst,
      lastSave, alt, volume, isMuted, keys>>

(***************************************************************************)
(* Values                                                                  *)
(***************************************************************************)
Undefined == "undefined"
Null == [null |-> TRUE]
None == [none |-> TRUE]

VideoIds == {"v1", "v2"}
\* Ids a stored list may hold: those of the videos, and one of a video the
\* channel no longer has.
ListIds == VideoIds \cup {"v3"}

\* The channel's videos as the videos endpoint returns them for
\* part=snippet,contentDetails,statistics. A title or a description is a
\* sequence of characters, and so is a count; a duration is its text cut
\* where the pattern of formatDuration cuts it. v2 has no high thumbnail and
\* hides its likes.
CatalogItem(id) ==
    IF id = "v1"
    THEN [id |-> "v1",
          snippet |-> [title |-> <<"A", "b">>, description |-> <<"D">>,
                       thumbnails |-> [default |-> [url |-> "v1/default.jpg"],
                                       high |-> [url |-> "v1/hqdefault.jpg"]],
                       channelTitle |-> "Awash"],
          contentDetails |->
              [duration |-> [prefix |-> "PT",
                             groups |-> <<<<"4", "M">>, <<"5", "S">>>>]],
          statistics |-> [viewCount |-> <<"1", "2", "3", "4">>,
                          likeCount |-> <<"5", "6">>]]
    ELSE [id |-> "v2",
          snippet |-> [title |-> <<"b", "C">>, description |-> <<>>,
                       thumbnails |-> [default |-> [url |-> "v2/default.jpg"]],
                       channelTitle |-> "Awash"],
          contentDetails |->
              [duration |-> [prefix |-> "PT",
                             groups |-> <<<<"1", "H">>, <<"2", "S">>>>]],
          statistics |-> [viewCount |-> <<"7">>]]

VideoItem(id) == [id |-> [kind |-> "youtube#video", videoId |-> id]]
ChannelItem == [id |-> [kind |-> "youtube#channel", videoId |-> Undefined]]

\* Bodies the search endpoint may answer with.
SearchBodies ==
    { [items |-> <<>>, nextPageToken |-> Undefined,
       prevPageToken |-> Undefined, pageInfo |-> [totalResults |-> 0]],
      [items |-> <<ChannelItem>>, nextPageToken |-> "T2",
       prevPageToken |-> Undefined, pageInfo |-> [totalResults |-> 1]],
      [items |-> <<VideoItem("v1")>>, nextPageToken |-> "T2",
       prevPageToken |-> Undefined, pageInfo |-> [totalResults |-> 1]],
      [items |-> <<VideoItem("v1"), ChannelItem, VideoItem("v2")>>,
       nextPageToken |-> "T2", prevPageToken |-> "T0",
       pageInfo |-> [totalResults |-> 3]] }

\* Bodies the videos endpoint may answer with for the ids asked for: the
\* items in full, or the items without the parts the formatting reads.
DetailsBody(ids) == [items |-> [i \in 1..Len(ids) |-> CatalogItem(ids[i])]]
DetailsBodies(ids) ==
    LET BareItem(id) ==
            [id |-> id,
             snippet |-> [title |-> CatalogItem(id).snippet.title,
                          description |-> CatalogItem(id).snippet.description]]
    IN {DetailsBody(ids), [items |-> [i \in 1..Len(ids) |-> BareItem(ids[i])]]}

\* How a fetch() settles: rejected, or fulfilled with a Response whose body
\* is still to be read.
FetchOutcomes ==
    { [settled |-> "rejected"],
      [settled |-> "fulfilled", ok |-> FALSE, status |-> 403],
      [settled |-> "fulfilled", ok |-> TRUE, status |-> 200] }

\* How Response.json() settles: rejected (the stream broke off, or the text
\* is no JSON), or fulfilled with the parsed body.
SearchReads ==
    {[read |-> "rejected"]}
        \cup {[read |-> "fulfilled", data |-> b] : b \in SearchBodies}
DetailsReads(ids) ==
    {[read |-> "rejected"]}
        \cup {[read |-> "fulfilled", data |-> b] : b \in DetailsBodies(ids)}

\* The arguments fetchYouTubeVideos is called with.
Args ==
    { [maxResults |-> 10, pageToken |-> ""],
      [maxResults |-> 10, pageToken |-> "T2"] }

CallIds == {1, 2}

(***************************************************************************)
(* youtube.ts                                                              *)
(***************************************************************************)
CHANNEL_ID == "UCGSroElDPOtCb8Wwhkae7qw"
CACHE_DURATION == 1000 * 60 * 5

\* The clock advances in steps of half the cache duration.
ClockStep == CACHE_DURATION \div 2
MaxTicks == 3

\* A key without the page token, which the code's key is not.
CacheKeyNoToken(maxResults, pageToken) ==
    CHANNEL_ID \o "-" \o ToString(maxResults)
\* `${CHANNEL_ID}-${maxResults}-${pageToken}`
CacheKey(maxResults, pageToken) ==
    CHANNEL_ID \o "-" \o ToString(maxResults) \o "-" \o pageToken

\* A freshness test that still holds at exactly five minutes, which the code's
\* does not.
IsFreshInclusive(entry, t) == t - entry.timestamp <= CACHE_DURATION
\* Date.now() - cached.timestamp < CACHE_DURATION
IsFresh(entry, t) == t - entry.timestamp < CACHE_DURATION

\* A set that would drop every other entry, which Map.prototype.set does
\* not.
MapSetAlone(m, k, v) == [x \in {k} |-> v]
\* Map.prototype.set
MapSet(m, k, v) == [x \in DOMAIN m \cup {k} |-> IF x = k THEN v ELSE m[x]]

\* items.filter(kind === "youtube#video").map(videoId)
ExtractIds(items) ==
    LET IsVideo(item) == item.id.kind = "youtube#video"
        vs == SelectSeq(items, IsVideo)
    IN [i \in 1..Len(vs) |-> vs[i].id.videoId]

RECURSIVE Join(_)
\* Array.prototype.join(",")
Join(ids) ==
    IF ids = <<>> THEN ""
    ELSE IF Len(ids) = 1 THEN Head(ids)
         ELSE Head(ids) \o "," \o Join(Tail(ids))

RECURSIVE ReadDigits(_, _)
\* The number the leading decimal digits of a text spell.
ReadDigits(chars, acc) ==
    IF chars = <<>> \/ Head(chars) \notin {ToString(d) : d \in 0..9} THEN acc
    ELSE ReadDigits(Tail(chars),
                    10 * acc + (CHOOSE d \in 0..9 : ToString(d) = Head(chars)))
\* parseInt of a text without sign or leading blanks
parseInt(chars) ==
    IF chars = <<>> \/ Head(chars) \notin {ToString(d) : d \in 0..9}
    THEN [isNaN |-> TRUE, n |-> 0]
    ELSE [isNaN |-> FALSE, n |-> ReadDigits(chars, 0)]

\* formatDuration: /PT(\d+H)?(\d+M)?(\d+S)?/, parseInt(...) || 0, padStart
formatDuration(duration) ==
    IF duration.prefix # "PT" THEN "0:00"
    ELSE LET g == duration.groups
             unit(i) == g[i][Len(g[i])]
             orZero(i) == IF parseInt(g[i]).isNaN THEN 0 ELSE parseInt(g[i]).n
             padStart(n) == IF n < 10 THEN "0" \o ToString(n) ELSE ToString(n)
             h == IF Len(g) >= 1 /\ unit(1) = "H" THEN 1 ELSE 0
             m == IF Len(g) > h /\ unit(h + 1) = "M" THEN 1 ELSE 0
             sec == IF Len(g) > h + m /\ unit(h + m + 1) = "S" THEN 1 ELSE 0
             hours == IF h = 1 THEN orZero(1) ELSE 0
             minutes == IF m = 1 THEN orZero(h + 1) ELSE 0
             seconds == IF sec = 1 THEN orZero(h + m + 1) ELSE 0
         IN IF hours > 0
            THEN ToString(hours) \o ":" \o padStart(minutes)
                     \o ":" \o padStart(seconds)
            ELSE ToString(minutes) \o ":" \o padStart(seconds)

\* formatNumber: parseInt(num).toLocaleString(), in the en-US locale, below
\* a million
formatNumber(num) ==
    IF parseInt(num).isNaN THEN "NaN"
    ELSE LET n == parseInt(num).n
             low == n % 1000
         IN IF n < 1000 THEN ToString(n)
            ELSE ToString(n \div 1000) \o ","
                     \o (IF low < 10 THEN "00"
                         ELSE IF low < 100 THEN "0" ELSE "")
                     \o ToString(low)

\* Whether the formatting of an item reads a property of undefined.
FormatThrows(item) ==
    \/ "thumbnails" \notin DOMAIN item.snippet
    \/ /\ "high" \notin DOMAIN item.snippet.thumbnails
       /\ "default" \notin DOMAIN item.snippet.thumbnails
    \/ "contentDetails" \notin DOMAIN item
    \/ "statistics" \notin DOMAIN item

\* videosData.items.map(...); publishedAt, a date in the locale and the time
\* zone of the host, is left out.
FormatVideo(item) ==
    LET \* String(undefined), which parseInt reads when a count is not there
        UndefinedText == <<"u", "n", "d", "e", "f", "i", "n", "e", "d">>
    IN
    [id |-> item.id, title |-> item.snippet.title,
     description |-> item.snippet.description,
     thumbnail |-> IF "high" \in DOMAIN item.snippet.thumbnails
                   THEN item.snippet.thumbnails.high.url
                   ELSE item.snippet.thumbnails.default.url,
     channelTitle |-> item.snippet.channelTitle,
     duration |-> formatDuration(item.contentDetails.duration),
     viewCount |-> formatNumber(IF "viewCount" \in DOMAIN item.statistics
                                THEN item.statistics.viewCount
                                ELSE UndefinedText),
     likeCount |-> formatNumber(IF "likeCount" \in DOMAIN item.statistics
                                THEN item.statistics.likeCount
                                ELSE UndefinedText)]
FormatVideos(items) == [i \in 1..Len(items) |-> FormatVideo(items[i])]

BuildResponse(videosData, searchData) ==
    [videos |-> FormatVideos(videosData.items),
     nextPageToken |-> searchData.nextPageToken,
     prevPageToken |-> searchData.prevPageToken,
     totalResults |-> searchData.pageInfo.totalResults]

EmptyResponse == [videos |-> <<>>]

SearchUrl(maxResults, pageToken) ==
    [path |-> "/search", maxResults |-> maxResults, pageToken |-> pageToken]
VideosUrl(videoIds) == [path |-> "/videos", id |-> videoIds]

\* A slot no invocation uses.
IdleCall ==
    [pc |-> "idle", maxResults |-> 0, pageToken |-> "", searchData |-> None,
     ids |-> <<>>, result |-> None,
     reqs |-> <<>>,        \* history: the requests this invocation issued
     lookup |-> "none",    \* history: what its cache lookup found
     outcome |-> "none"]   \* history: how its last request settled

Settled(c) == calls[c].pc \in {"idle", "returned", "thrown"}

\* fetchYouTubeVideos up to its first await: the cache lookup and, on a miss,
\* the search request. The invocation as it stands at that await.
Invoked(maxResults, pageToken, theCache, t) ==
    LET cacheKey == CacheKey(maxResults, pageToken)
        call == [IdleCall EXCEPT !.maxResults = maxResults,
                                 !.pageToken = pageToken]
    IN IF cacheKey \in DOMAIN theCache /\ IsFresh(theCache[cacheKey], t)
       THEN [call EXCEPT !.pc = "returned",
                         !.result = theCache[cacheKey].data,
                         !.lookup = "hit"]
       ELSE [call EXCEPT !.pc = "search",
                         !.reqs = <<SearchUrl(maxResults, pageToken)>>,
                         !.lookup = IF cacheKey \in DOMAIN theCache
                                    THEN "expired" ELSE "absent"]

\* A caller invokes fetchYouTubeVideos. Slot 2 holds an invocation that
\* starts while the one in slot 1 is in flight.
Invoke(c, maxResults, pageToken) ==
    /\ Settled(c)
    /\ c = 2 => ~Settled(1)
    /\ calls' = [calls EXCEPT ![c] = Invoked(maxResults, pageToken, cache, now)]
    /\ UNCHANGED <<cache, now, stored>>

\* How a fetch() settled, as the code tells the cases apart.
OutcomeOf(res) ==
    IF res.settled = "rejected" THEN "rejected"
    ELSE IF ~res.ok THEN "status" ELSE "ok"

\* A failure that would return the empty list instead of throwing, which the
\* code's does not.
ThrowSwallowed(call, outcome) ==
    [call EXCEPT !.pc = "returned", !.result = [videos |-> <<>>],
                 !.searchData = None, !.ids = <<>>,
                 !.outcome = outcome]
\* catch (error) { console.error(...); throw error; }
Throw(call, outcome) ==
    [call EXCEPT !.pc = "thrown", !.searchData = None, !.ids = <<>>,
                 !.outcome = outcome]

\* A test that would let an empty id list through to the details request,
\* which the code's does not.
NoVideoIdsNever(videoIds) == FALSE
\* !videoIds
NoVideoIds(videoIds) == videoIds = ""

\* await fetch(searchUrl) settles: the call throws, or goes on to read the
\* body.
SearchSettlesWith(c, res) ==
    /\ calls[c].pc = "search"
    /\ calls' = [calls EXCEPT ![c] =
           IF OutcomeOf(res) # "ok" THEN Throw(calls[c], OutcomeOf(res))
           ELSE [calls[c] EXCEPT !.pc = "searchBody", !.outcome = "ok"]]
    /\ UNCHANGED <<cache, now, stored>>

\* A function that would cache the empty list it returns, which the code's
\* return { videos: [] } does not.
SearchReadWithCaching(c, read) ==
    /\ calls[c].pc = "searchBody"
    /\ IF read.read = "rejected"
       THEN /\ calls' = [calls EXCEPT ![c] = Throw(calls[c], "body")]
            /\ cache' = cache
       ELSE LET searchData == read.data
                ids == ExtractIds(searchData.items)
                videoIds == Join(ids)
            IN IF NoVideoIds(videoIds)
               THEN /\ calls' = [calls EXCEPT ![c] =
                           [calls[c] EXCEPT !.pc = "returned",
                                            !.searchData = searchData,
                                            !.result = EmptyResponse]]
                    /\ cache' = MapSet(cache,
                                       CacheKey(calls[c].maxResults,
                                                calls[c].pageToken),
                                       [timestamp |-> now,
                                        data |-> EmptyResponse])
               ELSE /\ calls' = [calls EXCEPT ![c] =
                           [calls[c] EXCEPT !.pc = "details",
                                            !.searchData = searchData,
                                            !.ids = ids,
                                            !.reqs = Append(@, VideosUrl(videoIds))]]
                    /\ cache' = cache
    /\ UNCHANGED <<now, stored>>

\* await searchRes.json() settles: the ids are extracted and the details
\* request is issued, or the call returns the empty list, or it throws.
SearchReadWith(c, read) ==
    /\ calls[c].pc = "searchBody"
    /\ IF read.read = "rejected"
       THEN calls' = [calls EXCEPT ![c] = Throw(calls[c], "body")]
       ELSE LET searchData == read.data
                ids == ExtractIds(searchData.items)
                videoIds == Join(ids)
            IN IF NoVideoIds(videoIds)
               THEN calls' = [calls EXCEPT ![c] =
                        [calls[c] EXCEPT !.pc = "returned",
                                         !.searchData = searchData,
                                         !.result = EmptyResponse]]
               ELSE calls' = [calls EXCEPT ![c] =
                        [calls[c] EXCEPT !.pc = "details",
                                         !.searchData = searchData,
                                         !.ids = ids,
                                         !.reqs = Append(@, VideosUrl(videoIds))]]
    /\ UNCHANGED <<cache, now, stored>>

\* await fetch(videosUrl) settles: the call throws, or goes on to read the
\* body.
DetailsSettlesWith(c, res) ==
    /\ calls[c].pc = "details"
    /\ calls' = [calls EXCEPT ![c] =
           IF OutcomeOf(res) # "ok" THEN Throw(calls[c], OutcomeOf(res))
           ELSE [calls[c] EXCEPT !.pc = "detailsBody", !.outcome = "ok"]]
    /\ UNCHANGED <<cache, now, stored>>

\* One of the two awaits on a fetch() settles.
FetchSettles(c) ==
    \E res \in FetchOutcomes :
        SearchSettlesWith(c, res) \/ DetailsSettlesWith(c, res)

\* A cache.set as history records it; latest marks the last one for its
\* arguments.
StoreEvent(maxResults, pageToken, t, data) ==
    [maxResults |-> maxResults, pageToken |-> pageToken, at |-> t,
     data |-> data, latest |-> TRUE]
Earlier(events, maxResults, pageToken) ==
    {IF e.maxResults = maxResults /\ e.pageToken = pageToken
     THEN [e EXCEPT !.latest = FALSE] ELSE e : e \in events}

\* A function whose searchData would be one variable of the module, written
\* by the call whose search settled last (here the other call when it is
\* past its search), which the code's const searchData is not.
DetailsReadWithShared(c, read) ==
    /\ calls[c].pc = "detailsBody"
    /\ IF read.read = "rejected"
       THEN /\ calls' = [calls EXCEPT ![c] = Throw(calls[c], "body")]
            /\ UNCHANGED <<cache, stored>>
       ELSE IF \E i \in DOMAIN read.data.items :
                   FormatThrows(read.data.items[i])
       THEN /\ calls' = [calls EXCEPT ![c] = Throw(calls[c], "format")]
            /\ UNCHANGED <<cache, stored>>
       ELSE LET call == calls[c]
                others == {o \in CallIds \ {c} :
                              calls[o].pc \in {"details", "detailsBody"}}
                shared == IF others = {} THEN call.searchData
                          ELSE calls[CHOOSE o \in others : TRUE].searchData
                cacheKey == CacheKey(call.maxResults, call.pageToken)
                response == BuildResponse(read.data, shared)
            IN /\ cache' = MapSet(cache, cacheKey,
                                  [timestamp |-> now, data |-> response])
               /\ stored' = Earlier(stored, call.maxResults, call.pageToken)
                      \cup {StoreEvent(call.maxResults, call.pageToken,
                                       now, response)}
               /\ calls' = [calls EXCEPT ![c] =
                      [call EXCEPT !.pc = "returned", !.result = response,
                                   !.searchData = None, !.ids = <<>>]]
    /\ UNCHANGED now

\* await videosRes.json() settles: the response is built, cached with the
\* time of this moment and returned, or the call throws.
DetailsReadWith(c, read) ==
    /\ calls[c].pc = "detailsBody"
    /\ IF read.read = "rejected"
       THEN /\ calls' = [calls EXCEPT ![c] = Throw(calls[c], "body")]
            /\ UNCHANGED <<cache, stored>>
       ELSE IF \E i \in DOMAIN read.data.items :
                   FormatThrows(read.data.items[i])
       THEN /\ calls' = [calls EXCEPT ![c] = Throw(calls[c], "format")]
            /\ UNCHANGED <<cache, stored>>
       ELSE LET call == calls[c]
                cacheKey == CacheKey(call.maxResults, call.pageToken)
                response == BuildResponse(read.data, call.searchData)
            IN /\ cache' = MapSet(cache, cacheKey,
                                  [timestamp |-> now, data |-> response])
               /\ stored' = Earlier(stored, call.maxResults, call.pageToken)
                      \cup {StoreEvent(call.maxResults, call.pageToken,
                                       now, response)}
               /\ calls' = [calls EXCEPT ![c] =
                      [call EXCEPT !.pc = "returned", !.result = response,
                                   !.searchData = None, !.ids = <<>>]]
    /\ UNCHANGED now

\* One of the two awaits on a Response.json() settles.
BodyRead(c) ==
    \/ \E read \in SearchReads : SearchReadWith(c, read)
    \/ \E read \in DetailsReads(calls[c].ids) : DetailsReadWith(c, read)

\* Time passes.
Tick ==
    /\ now < MaxTicks * ClockStep
    /\ now' = now + ClockStep
    /\ stored' = {e \in stored : now' < e.at + CACHE_DURATION}
    /\ UNCHANGED <<cache, calls>>

(***************************************************************************)
(* App: strings, JSON and localStorage                                     *)
(***************************************************************************)
Impls == {"App.tsx", "part_001"}

\* String.prototype.toLowerCase, by character
LowerChar(ch) ==
    CASE ch = "A" -> "a"
      [] ch = "B" -> "b"
      [] ch = "C" -> "c"
      [] ch = "D" -> "d"
      [] OTHER -> ch
ToLowerCase(str) == [i \in 1..Len(str) |-> LowerChar(str[i])]

\* String.prototype.includes
StrIncludes(str, sub) ==
    \E i \in 0..(Len(str) - Len(sub)) : SubSeq(str, i + 1, i + Len(sub)) = sub

\* Array.prototype.includes
Includes(list, x) == \E i \in 1..Len(list) : list[i] = x

\* What the search box may hold.
Queries == {<<>>, <<"B", "c">>}

\* A JSON text is a sequence of tokens; a string literal is one token.
Quote(str) == "\"" \o str \o "\""
StringTokens == {Quote(id) : id \in ListIds}
Unquote(tok) == CHOOSE id \in ListIds : Quote(id) = tok

RECURSIVE Elements(_)
Elements(list) ==
    IF list = <<>> THEN <<>>
    ELSE IF Len(list) = 1 THEN <<Quote(Head(list))>>
         ELSE <<Quote(Head(list)), ",">> \o Elements(Tail(list))

\* A serialization that would leave the strings unquoted, which the code's
\* does not.
JSONstringifyUnquoted(list) == <<"[">> \o list \o <<"]">>
\* JSON.stringify of an array of strings
JSONstringify(list) == <<"[">> \o Elements(list) \o <<"]">>

\* The number literals a stored text may hold.
NumberTokens == {"0", "42"}
\* A JSON value that is neither a string nor an array, by its literal.
Scalar(type, tok) == [json |-> type, literal |-> tok]

SyntaxError == [ok |-> FALSE]
Parsed(v) == [ok |-> TRUE, value |-> v]
\* A parsed value with what typeof and Array.isArray tell of it.
ParsedAs(type, v) == [ok |-> TRUE, type |-> type, value |-> v]

RECURSIVE ParseElements(_, _)
\* The elements of an array, after "[" or ",".
ParseElements(toks, acc) ==
    IF toks = <<>> \/ Head(toks) \notin StringTokens \cup NumberTokens
    THEN SyntaxError
    ELSE LET acc2 == Append(acc, IF Head(toks) \in StringTokens
                                 THEN Unquote(Head(toks))
                                 ELSE Scalar("number", Head(toks)))
             rest == Tail(toks)
         IN IF rest = <<"]">> THEN Parsed(acc2)
            ELSE IF rest # <<>> /\ Head(rest) = ","
                 THEN ParseElements(Tail(rest), acc2)
                 ELSE SyntaxError

\* The type of a parsed array: "string[]" when every element is a string.
ArrayType(text) ==
    IF \A i \in 1..Len(text) : text[i] \notin NumberTokens THEN "string[]"
    ELSE "array"

\* JSON.parse of a text: the value, with its type
JSONparse(text) ==
    IF text = <<"[", "]">> THEN ParsedAs("string[]", <<>>)
    ELSE IF text # <<>> /\ Head(text) = "["
    THEN LET p == ParseElements(Tail(text), <<>>)
         IN IF p.ok THEN ParsedAs(ArrayType(text), p.value) ELSE SyntaxError
    ELSE IF Len(text) = 1 /\ text[1] \in StringTokens
    THEN ParsedAs("string", Unquote(text[1]))
    ELSE IF Len(text) = 1 /\ text[1] \in NumberTokens
    THEN ParsedAs("number", Scalar("number", text[1]))
    ELSE IF Len(text) = 1 /\ text[1] \in {"true", "false"}
    THEN ParsedAs("boolean", Scalar("boolean", text[1]))
    ELSE IF text = <<"null">> THEN ParsedAs("null", Null)
    ELSE IF text = <<"{", "}">> THEN ParsedAs("object", Scalar("object", "{}"))
    ELSE SyntaxError

\* defaultValue = []
DefaultValue == ParsedAs("string[]", <<>>)

\* The body of getLocalStorage(key): what it returns, with its type. A
\* SyntaxError of JSON.parse is caught and the default returned.
getLocalStorageReturn(store, key) ==
    IF key \notin DOMAIN store THEN DefaultValue
    ELSE LET text == store[key]
         IN IF text = <<>> THEN DefaultValue
            ELSE LET p == JSONparse(text)
                 IN IF p.ok THEN p ELSE DefaultValue

\* getLocalStorage(key), defaultValue = []
getLocalStorage(store, key) == getLocalStorageReturn(store, key).value

\* What an effect run closes over: the five values saveData writes.
Snapshot(fav, hist, pl, wl, tab) ==
    [favorites |-> fav, history |-> hist, playlist |-> pl, watchLater |-> wl,
     activeTab |-> tab]

\* A save of the four lists only, which the code's is not.
saveDataListsOnly(store, snap) ==
    LET s1 == MapSet(store, "favorites", JSONstringify(snap.favorites))
        s2 == MapSet(s1, "history", JSONstringify(snap.history))
        s3 == MapSet(s2, "playlist", JSONstringify(snap.playlist))
    IN MapSet(s3, "watchLater", JSONstringify(snap.watchLater))
\* A save that would leave the history key out, which the code's does not.
saveDataNoHistory(store, snap) ==
    LET s1 == MapSet(store, "favorites", JSONstringify(snap.favorites))
        s3 == MapSet(s1, "playlist", JSONstringify(snap.playlist))
        s4 == MapSet(s3, "watchLater", JSONstringify(snap.watchLater))
    IN MapSet(s4, "activeTab", <<snap.activeTab>>)
\* saveData of App.tsx
saveData(store, snap) ==
    LET s1 == MapSet(store, "favorites", JSONstringify(snap.favorites))
        s2 == MapSet(s1, "history", JSONstringify(snap.history))
        s3 == MapSet(s2, "playlist", JSONstringify(snap.playlist))
        s4 == MapSet(s3, "watchLater", JSONstringify(snap.watchLater))
    IN MapSet(s4, "activeTab", <<snap.activeTab>>)

\* saveData of part_001
saveDataAlt(store, snap) ==
    LET s1 == MapSet(store, "favorites", JSONstringify(snap.favorites))
        s2 == MapSet(s1, "history", JSONstringify(snap.history))
        s3 == MapSet(s2, "playlist", JSONstringify(snap.playlist))
    IN MapSet(s3, "activeTab", <<snap.activeTab>>)

DEBOUNCE_MS == 300
TickMs == 150

NewTimer(snap) == [elapsed |-> 0, current |-> TRUE, snap |-> snap]

\* An effect without its cleanup, which would leave the earlier timer
\* pending; the code's does not.
ScheduleSaveNoClear(pending, snap) ==
    {[t EXCEPT !.current = FALSE] : t \in pending} \cup {NewTimer(snap)}
\* The save effect runs again: the cleanup of its previous run
\* (clearTimeout), then setTimeout(saveData, 300).
ScheduleSave(pending, snap) ==
    {t \in pending : ~t.current} \cup {NewTimer(snap)}

(***************************************************************************)
(* App: the render and the handlers                                        *)
(***************************************************************************)
TabsApp == <<"all", "favorites", "history", "playlist", "watchLater">>
TabsAlt == <<"all", "favorites", "history", "playlist">>
TabIds(i) ==
    IF i = "App.tsx" THEN {TabsApp[k] : k \in 1..Len(TabsApp)}
    ELSE {TabsAlt[k] : k \in 1..Len(TabsAlt)}

\* A match that would compare without toLowerCase(), which the code's does
\* not.
matchesSearchCaseSensitive(video, query) ==
    \/ StrIncludes(video.title, query)
    \/ StrIncludes(video.description, query)
matchesSearch(video, query) ==
    \/ StrIncludes(ToLowerCase(video.title), ToLowerCase(query))
    \/ StrIncludes(ToLowerCase(video.description), ToLowerCase(query))

\* filteredVideos of App.tsx
filteredVideosApp(vids, query, tab, fav, hist, pl, wl) ==
    LET Keep(video) ==
            CASE tab = "favorites" ->
                     matchesSearch(video, query) /\ Includes(fav, video.id)
              [] tab = "history" ->
                     matchesSearch(video, query) /\ Includes(hist, video.id)
              [] tab = "playlist" ->
                     matchesSearch(video, query) /\ Includes(pl, video.id)
              [] tab = "watchLater" ->
                     matchesSearch(video, query) /\ Includes(wl, video.id)
              [] OTHER -> matchesSearch(video, query)
    IN SelectSeq(vids, Keep)

\* filteredVideos of part_001
filteredVideosAlt(vids, query, tab, fav, hist, pl) ==
    LET Keep(video) ==
            CASE tab = "favorites" ->
                     matchesSearch(video, query) /\ Includes(fav, video.id)
              [] tab = "history" ->
                     matchesSearch(video, query) /\ Includes(hist, video.id)
              [] tab = "playlist" ->
                     matchesSearch(video, query) /\ Includes(pl, video.id)
              [] OTHER -> matchesSearch(video, query)
    IN SelectSeq(vids, Keep)

filteredVideos(i, vids, query, tab, fav, hist, pl, wl) ==
    IF i = "App.tsx"
    THEN filteredVideosApp(vids, query, tab, fav, hist, pl, wl)
    ELSE filteredVideosAlt(vids, query, tab, fav, hist, pl)

\* A toggle that would always append, which the code's does not.
toggleAppendOnly(prev, videoId) ==
    IF Includes(prev, videoId) THEN prev ELSE Append(prev, videoId)
\* prev.includes(videoId) ? prev.filter(id => id !== videoId) : [...prev, videoId]
toggle(prev, videoId) ==
    IF Includes(prev, videoId)
    THEN LET Other(id) == id # videoId IN SelectSeq(prev, Other)
    ELSE Append(prev, videoId)

\* A playVideo that would record nothing, which the code's does not.
playVideoHistoryNever(hist, videoId) == hist
\* playVideo: if (!history.includes(video.id)) setHistory(prev => [...prev,
\* video.id]). The test reads the history of the render that defined the
\* handler, the updater appends to the list React hands it.
playVideoSetHistory(rendered, prev, videoId) ==
    IF ~Includes(rendered, videoId) THEN Append(prev, videoId) ELSE prev
\* playVideo: the history after one call
playVideoHistory(hist, videoId) ==
    IF ~Includes(hist, videoId) THEN Append(hist, videoId) ELSE hist

\* Array.prototype.findIndex and find, 0-based as in the source
FindIndex(list, x) ==
    IF Includes(list, x)
    THEN (CHOOSE i \in 1..Len(list) :
              list[i] = x /\ \A j \in 1..(i - 1) : list[j] # x) - 1
    ELSE -1
HasVideo(vids, id) == \E i \in 1..Len(vids) : vids[i].id = id
FindVideo(vids, id) ==
    vids[CHOOSE i \in 1..Len(vids) :
             vids[i].id = id /\ \A j \in 1..(i - 1) : vids[j].id # id]

\* handleVideoEnd of App.tsx: the video to play next, Null to close the player
handleVideoEndNext(pl, vids, current) ==
    LET currentIndex == FindIndex(pl, current.id)
        nextIndex == currentIndex + 1
    IN IF nextIndex < Len(pl)
       THEN IF HasVideo(vids, pl[nextIndex + 1])
            THEN FindVideo(vids, pl[nextIndex + 1])
            ELSE Null
       ELSE Null

\* A Play Next that would close the player when no video follows, which that
\* of part_001 does not.
playNextAltClosing(pl, vids, current) ==
    LET nextIndex == FindIndex(pl, current.id) + 1
    IN IF nextIndex < Len(pl) /\ HasVideo(vids, pl[nextIndex + 1])
       THEN FindVideo(vids, pl[nextIndex + 1])
       ELSE Null
\* Play Next of part_001: the current video after the click
playNextAlt(pl, vids, current) ==
    LET nextIndex == FindIndex(pl, current.id) + 1
    IN IF nextIndex < Len(pl)
       THEN IF HasVideo(vids, pl[nextIndex + 1])
            THEN FindVideo(vids, pl[nextIndex + 1])
            ELSE current
       ELSE current

\* loadData: data.videos.map(video => ({id: video.id || "", ...})); views,
\* date and qualities, which no handler reads, are left out.
validatedVideos(vs) ==
    [i \in 1..Len(vs) |->
        [id |-> vs[i].id, title |-> vs[i].title,
         description |-> vs[i].description,
         thumbnail |-> vs[i].thumbnail, duration |-> vs[i].duration]]

\* loadData without its catch, which would let the error escape; the code's
\* does not.
loadDataNoCatch(call, vids) ==
    IF call.pc = "returned"
    THEN [videos |-> IF "videos" \in DOMAIN call.result
                     THEN validatedVideos(call.result.videos) ELSE vids,
          uncaught |-> FALSE]
    ELSE [videos |-> vids, uncaught |-> TRUE]
\* loadData after its await: the videos, and whether the error escapes
loadDataSettled(call, vids) ==
    IF call.pc = "returned"
    THEN [videos |-> IF "videos" \in DOMAIN call.result
                     THEN validatedVideos(call.result.videos) ELSE vids,
          uncaught |-> FALSE]
    ELSE [videos |-> vids, uncaught |-> FALSE]

\* A loadData whose setLoading(false) would run after a fetch that returned
\* only, which the code's finally does not.
loadingAfterReturnOnly(call) == call.pc # "returned"
\* loadData: finally { setLoading(false) }
loadingAfter(call) == FALSE

(***************************************************************************)
(* App: mount, the user's operations, timers                               *)
(***************************************************************************)
MaxOps == 3

DefaultMaxResults == 10
DefaultPageToken == ""

\* useState(80), useState(false), and the keydown listener of the first
\* render
InitialVolume == 80
PlayerMounted ==
    /\ volume = InitialVolume
    /\ isMuted = FALSE
    /\ keys = [volume |-> InitialVolume, isMuted |-> FALSE]

\* What storage may hold when the page is first opened: nothing, or what an
\* earlier visit saved, next to a key another script of the origin wrote.
StorageProfiles ==
    { <<>>,
      saveData(MapSet(<<>>, "theme", <<"dark">>),
               Snapshot(<<"v2">>, <<"v1", "v2">>, <<"v1", "v2">>,
                        <<"v1">>, "history")) }

\* The first render throws: it reads the length of a list that is null. A
\* number, a boolean, an object or a string has a length or none, and the
\* render goes on.
RenderThrows(i, store) ==
    LET RenderedLists ==
            IF i = "App.tsx"
            THEN {"favorites", "history", "playlist", "watchLater"}
            ELSE {"favorites", "history", "playlist"}
    IN \E key \in RenderedLists :
           getLocalStorageReturn(store, key).type = "null"

\* A first render that would take the tab from storage, which the code's
\* does not.
MountedRestoringTab(i, store) ==
    LET fav == getLocalStorage(store, "favorites")
        hist == getLocalStorage(store, "history")
        pl == getLocalStorage(store, "playlist")
        wl == IF i = "App.tsx" THEN getLocalStorage(store, "watchLater")
              ELSE <<>>
        tab == IF "activeTab" \in DOMAIN store THEN store["activeTab"][1]
               ELSE "all"
    IN [videos |-> <<>>, currentVideo |-> Null, searchQuery |-> <<>>,
        favorites |-> fav, history |-> hist, playlist |-> pl,
        watchLater |-> wl, activeTab |-> tab, loading |-> TRUE,
        filtered |-> <<>>,
        mounted |-> ~RenderThrows(i, store),
        timers |-> IF RenderThrows(i, store) THEN {}
                   ELSE ScheduleSave({}, Snapshot(fav, hist, pl, wl, tab)),
        call |-> IF RenderThrows(i, store) THEN IdleCall
                 ELSE Invoked(DefaultMaxResults, DefaultPageToken, <<>>, 0)]
\* The component after its first render and effects: the state hooks'
\* initial values, loadData at its await, the first save scheduled. When the
\* render throws, nothing is committed and no effect runs: no timer, no
\* fetch.
Mounted(i, store) ==
    LET fav == getLocalStorage(store, "favorites")
        hist == getLocalStorage(store, "history")
        pl == getLocalStorage(store, "playlist")
        wl == IF i = "App.tsx" THEN getLocalStorage(store, "watchLater")
              ELSE <<>>
    IN [videos |-> <<>>, currentVideo |-> Null, searchQuery |-> <<>>,
        favorites |-> fav, history |-> hist, playlist |-> pl,
        watchLater |-> wl, activeTab |-> "all", loading |-> TRUE,
        filtered |-> filteredVideos(i, <<>>, <<>>, "all", fav, hist, pl, wl),
        mounted |-> ~RenderThrows(i, store),
        timers |-> IF RenderThrows(i, store) THEN {}
                   ELSE ScheduleSave({}, Snapshot(fav, hist, pl, wl, "all")),
        call |-> IF RenderThrows(i, store) THEN IdleCall
                 ELSE Invoked(DefaultMaxResults, DefaultPageToken, <<>>, 0)]

Min(a, b) == IF a < b THEN a ELSE b

\* The changes of a burst are counted up to MaxBurst.
MaxBurst == 2

CurrentSnapshot == Snapshot(favorites, history, playlist, watchLater, activeTab)

\* The re-render a handler's state updates cause: the save effect runs again
\* when one of its dependencies changed, and the grid is filtered anew.
Rerender(depsChanged) ==
    /\ timers' = IF depsChanged THEN ScheduleSave(timers, CurrentSnapshot')
                 ELSE timers
    /\ sinceChange' = IF depsChanged THEN 0 ELSE sinceChange
    /\ saves' = IF depsChanged THEN 0 ELSE saves
    /\ burst' = IF ~depsChanged THEN burst
              ELSE IF sinceChange < DEBOUNCE_MS THEN Min(burst + 1, MaxBurst)
              ELSE 1
    /\ filtered' = filteredVideos(impl, videos', searchQuery', activeTab',
                                  favorites', history', playlist', watchLater')

\* A handler runs; there is none when the first render threw.
UserOp ==
    /\ loadPc # "crashed"
    /\ ops < MaxOps
    /\ ops' = ops + 1
    /\ UNCHANGED <<impl, videos, loading, storage, loadPc, uncaught, lastSave>>
    /\ UNCHANGED fetchVars

\* A card of the grid is rendered for the video.
CardShown(video) ==
    /\ Includes(filtered, video)
    /\ impl = "part_001" => ~loading

\* onClick of a tab
SelectTab(tab) ==
    /\ UserOp
    /\ tab \in TabIds(impl)
    /\ activeTab' = tab
    /\ tog' = None
    /\ UNCHANGED <<currentVideo, searchQuery, favorites, history, playlist,
                   watchLater>>
    /\ Rerender(tab # activeTab)

\* onChange of the search box (part_001; App.tsx has no setter)
SetSearchQuery(query) ==
    /\ UserOp
    /\ impl = "part_001"
    /\ query # searchQuery
    /\ searchQuery' = query
    /\ tog' = None
    /\ UNCHANGED <<currentVideo, activeTab, favorites, history, playlist,
                   watchLater>>
    /\ Rerender(FALSE)

\* onClick of a card: playVideo(video)
PlayVideo(video) ==
    /\ UserOp
    /\ CardShown(video)
    /\ currentVideo' = video
    /\ history' = playVideoHistory(history, video.id)
    /\ tog' = None
    /\ UNCHANGED <<searchQuery, activeTab, favorites, playlist, watchLater>>
    /\ Rerender(~Includes(history, video.id))

\* The buttons a toggle is behind: those of the open video and, in part_001,
\* those of the cards.
ToggleShown(videoId) ==
    \/ currentVideo # Null /\ currentVideo.id = videoId
    \/ impl = "part_001" /\ \E i \in 1..Len(filtered) :
           filtered[i].id = videoId /\ CardShown(filtered[i])

Toggled(name, videoId, before) ==
    IF tog # None /\ tog.name = name /\ tog.id = videoId /\ tog.count = 1
    THEN [tog EXCEPT !.count = 2]
    ELSE [name |-> name, id |-> videoId, before |-> before, count |-> 1]

ToggleFavorite(videoId) ==
    /\ UserOp
    /\ ToggleShown(videoId)
    /\ favorites' = toggle(favorites, videoId)
    /\ tog' = Toggled("favorites", videoId, favorites)
    /\ UNCHANGED <<currentVideo, searchQuery, activeTab, history, playlist,
                   watchLater>>
    /\ Rerender(TRUE)

TogglePlaylist(videoId) ==
    /\ UserOp
    /\ ToggleShown(videoId)
    /\ playlist' = toggle(playlist, videoId)
    /\ tog' = Toggled("playlist", videoId, playlist)
    /\ UNCHANGED <<currentVideo, searchQuery, activeTab, favorites, history,
                   watchLater>>
    /\ Rerender(TRUE)

ToggleWatchLater(videoId) ==
    /\ UserOp
    /\ impl = "App.tsx"
    /\ currentVideo # Null /\ currentVideo.id = videoId
    /\ watchLater' = toggle(watchLater, videoId)
    /\ tog' = Toggled("watchLater", videoId, watchLater)
    /\ UNCHANGED <<currentVideo, searchQuery, activeTab, favorites, history,
                   playlist>>
    /\ Rerender(TRUE)

\* The Clear Data button: always there in part_001, in App.tsx when a list
\* is not empty.
ClearShown ==
    \/ impl = "part_001"
    \/ Len(favorites) > 0 \/ Len(history) > 0 \/ Len(playlist) > 0
    \/ Len(watchLater) > 0

\* A clearAllData that would leave the playlist, which the code's does not.
ClearAllDataKeepsPlaylist(confirmed) ==
    /\ UserOp
    /\ ClearShown
    /\ tog' = None
    /\ IF confirmed
       THEN /\ favorites' = <<>>
            /\ history' = <<>>
            /\ watchLater' = <<>>
            /\ activeTab' = "all"
       ELSE UNCHANGED <<favorites, history, watchLater, activeTab>>
    /\ UNCHANGED <<currentVideo, searchQuery, playlist>>
    /\ Rerender(confirmed)
\* clearAllData, with the answer to window.confirm
ClearAllData(confirmed) ==
    /\ UserOp
    /\ ClearShown
    /\ tog' = None
    /\ IF confirmed
       THEN /\ favorites' = <<>>
            /\ history' = <<>>
            /\ playlist' = <<>>
            /\ watchLater' = <<>>
            /\ activeTab' = "all"
       ELSE UNCHANGED <<favorites, history, playlist, watchLater, activeTab>>
    /\ UNCHANGED <<currentVideo, searchQuery>>
    /\ Rerender(confirmed)

\* The Escape key: setCurrentVideo(null), a video open or not
EscapeKey ==
    /\ UserOp
    /\ currentVideo' = Null
    /\ tog' = None
    /\ UNCHANGED <<searchQuery, activeTab, favorites, history, playlist,
                   watchLater>>
    /\ Rerender(FALSE)

\* The close button of the player, or the Escape key while a video is open
CloseVideo == currentVideo # Null /\ EscapeKey

\* The Play Next button, there when the open video is in the playlist:
\* handleVideoEnd in App.tsx, the inline handler in part_001.
PlayNext ==
    /\ UserOp
    /\ currentVideo # Null
    /\ Includes(playlist, currentVideo.id)
    /\ tog' = None
    /\ IF impl = "App.tsx"
       THEN LET next == handleVideoEndNext(playlist, videos, currentVideo)
            IN /\ currentVideo' = next
               /\ history' = IF next # Null
                             THEN playVideoHistory(history, next.id)
                             ELSE history
               /\ UNCHANGED <<searchQuery, activeTab, favorites, playlist,
                              watchLater>>
               /\ Rerender(next # Null /\ ~Includes(history, next.id))
       ELSE /\ currentVideo' = playNextAlt(playlist, videos, currentVideo)
            /\ UNCHANGED <<searchQuery, activeTab, favorites, history,
                           playlist, watchLater>>
            /\ Rerender(FALSE)

\* The awaits of loadData's fetchYouTubeVideos() settle: those on a fetch(),
\* and those on the body of its Response.
LoadAwaitSettles ==
    /\ loadPc = "awaiting"
    /\ FetchSettles(1)
    /\ UNCHANGED appVars

LoadBodyRead ==
    /\ loadPc = "awaiting"
    /\ BodyRead(1)
    /\ UNCHANGED appVars

\* loadData after its await: setVideos, or catch, then finally.
LoadDataSettles ==
    /\ loadPc = "awaiting"
    /\ Settled(1)
    /\ LET out == loadDataSettled(calls[1], videos)
       IN /\ videos' = out.videos
          /\ uncaught' = out.uncaught
    /\ loading' = loadingAfter(calls[1])
    /\ loadPc' = "done"
    /\ UNCHANGED <<impl, currentVideo, searchQuery, favorites, history, playlist,
                   watchLater, activeTab, storage, ops, tog, lastSave, alt>>
    /\ UNCHANGED playerVars
    /\ UNCHANGED fetchVars
    /\ Rerender(FALSE)

\* TickMs pass; a timer that is due runs first.
AppTick ==
    /\ \A t \in timers : t.elapsed < DEBOUNCE_MS
    /\ timers # {} \/ sinceChange < DEBOUNCE_MS
    /\ timers' = {[t EXCEPT !.elapsed = @ + TickMs] : t \in timers}
    /\ sinceChange' = Min(sinceChange + TickMs, DEBOUNCE_MS)
    /\ UNCHANGED <<impl, videos, currentVideo, searchQuery, favorites, history,
                   playlist, watchLater, activeTab, loading, filtered, storage,
                   loadPc, uncaught, ops, tog, saves, burst, lastSave, alt>>
    /\ UNCHANGED playerVars
    /\ UNCHANGED fetchVars

\* A timer is due: saveData runs with the values its effect run closed over.
TimerFires ==
    \E t \in timers :
        /\ t.elapsed >= DEBOUNCE_MS
        /\ storage' = IF impl = "App.tsx" THEN saveData(storage, t.snap)
                      ELSE saveDataAlt(storage, t.snap)
        /\ timers' = timers \ {t}
        /\ saves' = Min(saves + 1, 2)
        /\ lastSave' = t.snap
        /\ UNCHANGED <<impl, videos, currentVideo, searchQuery, favorites,
                       history, playlist, watchLater, activeTab, loading,
                       filtered, loadPc, uncaught, ops, tog, sinceChange,
                       burst, alt>>
        /\ UNCHANGED playerVars
        /\ UNCHANGED fetchVars

\* The page is loaded again: a new session over the same storage.
Reload ==
    /\ ops < MaxOps
    /\ ops' = ops + 1
    /\ LET m == Mounted(impl, storage)
       IN /\ videos' = m.videos
          /\ currentVideo' = m.currentVideo
          /\ searchQuery' = m.searchQuery
          /\ favorites' = m.favorites
          /\ history' = m.history
          /\ playlist' = m.playlist
          /\ watchLater' = m.watchLater
          /\ activeTab' = m.activeTab
          /\ loading' = m.loading
          /\ filtered' = m.filtered
          /\ timers' = m.timers
          /\ calls' = [c \in CallIds |-> IF c = 1 THEN m.call ELSE IdleCall]
          /\ loadPc' = IF m.mounted THEN "awaiting" ELSE "crashed"
    /\ cache' = <<>>
    /\ stored' = {}
    /\ uncaught' = FALSE
    /\ tog' = None
    /\ sinceChange' = 0
    /\ saves' = 0
    /\ burst' = 0
    /\ UNCHANGED <<impl, storage, now, lastSave, alt>>
    /\ volume' = InitialVolume
    /\ isMuted' = FALSE
    /\ keys' = [volume |-> InitialVolume, isMuted |-> FALSE]

Init ==
    /\ impl \in Impls
    /\ storage \in StorageProfiles
    /\ LET m == Mounted(impl, storage)
       IN /\ videos = m.videos
          /\ currentVideo = m.currentVideo
          /\ searchQuery = m.searchQuery
          /\ favorites = m.favorites
          /\ history = m.history
          /\ playlist = m.playlist
          /\ watchLater = m.watchLater
          /\ activeTab = m.activeTab
          /\ loading = m.loading
          /\ filtered = m.filtered
          /\ timers = m.timers
          /\ calls = [c \in CallIds |-> IF c = 1 THEN m.call ELSE IdleCall]
          /\ loadPc = IF m.mounted THEN "awaiting" ELSE "crashed"
    /\ cache = <<>>
    /\ now = 0
    /\ stored = {}
    /\ uncaught = FALSE
    /\ ops = 0
    /\ tog = None
    /\ sinceChange = 0
    /\ saves = 0
    /\ burst = 0
    /\ lastSave = None
    /\ alt = None
    /\ PlayerMounted

NextMounted ==
    \/ \E tab \in TabIds(impl) : SelectTab(tab) /\ UNCHANGED sideVars
    \/ \E query \in Queries : SetSearchQuery(query) /\ UNCHANGED sideVars
    \/ \E i \in 1..Len(filtered) : PlayVideo(filtered[i]) /\ UNCHANGED sideVars
    \/ \E id \in VideoIds : ToggleFavorite(id) /\ UNCHANGED sideVars
    \/ \E id \in VideoIds : TogglePlaylist(id) /\ UNCHANGED sideVars
    \/ \E id \in VideoIds : ToggleWatchLater(id) /\ UNCHANGED sideVars
    \/ \E confirmed \in BOOLEAN : ClearAllData(confirmed) /\ UNCHANGED sideVars
    \/ CloseVideo /\ UNCHANGED sideVars
    \/ PlayNext /\ UNCHANGED sideVars
    \/ LoadAwaitSettles
    \/ LoadBodyRead
    \/ LoadDataSettles
    \/ AppTick
    \/ TimerFires

Next ==
    \/ NextMounted
    \/ Reload

Spec == Init /\ [][Next]_vars

\* One session, the page never loaded again: time passes, and a timer that is
\* due runs.
SpecMounted ==
    /\ Init
    /\ [][NextMounted]_vars
    /\ WF_vars(AppTick)
    /\ WF_vars(TimerFires)
    /\ WF_vars(LoadDataSettles)

(***************************************************************************)
(* The data-access module on its own, with overlapping callers             *)
(***************************************************************************)
\* No App is mounted.
NoApp ==
    /\ impl = "App.tsx"
    /\ videos = <<>>
    /\ currentVideo = Null
    /\ searchQuery = <<>>
    /\ favorites = <<>>
    /\ history = <<>>
    /\ playlist = <<>>
    /\ watchLater = <<>>
    /\ activeTab = "all"
    /\ loading = TRUE
    /\ filtered = <<>>
    /\ storage = <<>>
    /\ timers = {}
    /\ loadPc = "done"
    /\ uncaught = FALSE
    /\ ops = 0
    /\ tog = None
    /\ sinceChange = 0
    /\ saves = 0
    /\ burst = 0
    /\ lastSave = None
    /\ alt = None
    /\ PlayerMounted

FetchInit ==
    /\ cache = <<>>
    /\ now = 0
    /\ calls = [c \in CallIds |-> IdleCall]
    /\ stored = {}
    /\ NoApp

FetchInvoke ==
    /\ \E c \in CallIds : \E a \in Args : Invoke(c, a.maxResults, a.pageToken)
    /\ UNCHANGED appVars

FetchAwaitSettles ==
    /\ \E c \in CallIds : FetchSettles(c)
    /\ UNCHANGED appVars

FetchBodyRead ==
    /\ \E c \in CallIds : BodyRead(c)
    /\ UNCHANGED appVars

FetchTick ==
    /\ Tick
    /\ UNCHANGED appVars

FetchNext ==
    \/ FetchInvoke
    \/ FetchAwaitSettles
    \/ FetchBodyRead
    \/ FetchTick

SpecFetch == FetchInit /\ [][FetchNext]_vars


(***************************************************************************)
(* The toggles and the filter on their own, over every list                *)
(***************************************************************************)
MaxLen == 2

\* The lists of at most n ids without a repeated id.
ListsUpTo(n) ==
    UNION {{l \in [1..k -> ListIds] : \A i, j \in 1..k : l[i] = l[j] => i = j}
           : k \in 0..n}

AllVideos == validatedVideos(FormatVideos(DetailsBody(<<"v1", "v2">>).items))

\* The response of a search that found v1, a channel and v2.
LoadedResponse ==
    BuildResponse(DetailsBody(<<"v1", "v2">>),
                  [items |-> <<VideoItem("v1"), ChannelItem, VideoItem("v2")>>,
                   nextPageToken |-> "T2", prevPageToken |-> "T0",
                   pageInfo |-> [totalResults |-> 3]])

\* The App some time after its fetch returned and its last save ran.
Loaded(vids, current, fav, hist, pl, wl) ==
    /\ videos = vids
    /\ currentVideo = current
    /\ searchQuery = <<>>
    /\ favorites = fav
    /\ history = hist
    /\ playlist = pl
    /\ watchLater = wl
    /\ activeTab = "all"
    /\ loading = FALSE
    /\ filtered = filteredVideos(impl, vids, <<>>, "all", fav, hist, pl, wl)
    /\ storage = IF impl = "App.tsx"
                 THEN saveData(<<>>, Snapshot(fav, hist, pl, wl, "all"))
                 ELSE saveDataAlt(<<>>, Snapshot(fav, hist, pl, wl, "all"))
    /\ timers = {}
    /\ loadPc = "done"
    /\ uncaught = FALSE
    /\ ops = 0
    /\ tog = None
    /\ sinceChange = DEBOUNCE_MS
    /\ saves = 1
    /\ burst = 0
    /\ lastSave = Snapshot(fav, hist, pl, wl, "all")
    /\ PlayerMounted
    /\ cache = MapSet(<<>>, CacheKey(DefaultMaxResults, DefaultPageToken),
                      [timestamp |-> 0, data |-> LoadedResponse])
    /\ now = 0
    /\ calls = [c \in CallIds |->
                   IF c = 1
                   THEN [IdleCall EXCEPT
                            !.pc = "returned",
                            !.maxResults = DefaultMaxResults,
                            !.pageToken = DefaultPageToken,
                            !.result = LoadedResponse,
                            !.lookup = "absent",
                            !.outcome = "ok",
                            !.reqs = <<SearchUrl(DefaultMaxResults,
                                                 DefaultPageToken),
                                       VideosUrl("v1,v2")>>]
                   ELSE IdleCall]
    /\ stored = {StoreEvent(DefaultMaxResults, DefaultPageToken, 0,
                             LoadedResponse)}

\* A video is open; the three lists hold any list.
ToggleInit ==
    /\ impl \in Impls
    /\ alt = None
    /\ \E l \in ListsUpTo(MaxLen) : \E k \in 1..Len(AllVideos) :
           Loaded(AllVideos, AllVideos[k], l, <<AllVideos[k].id>>, l,
                  IF impl = "App.tsx" THEN l ELSE <<>>)

ToggleNext ==
    \/ \E id \in VideoIds : ToggleFavorite(id) /\ UNCHANGED sideVars
    \/ \E id \in VideoIds : TogglePlaylist(id) /\ UNCHANGED sideVars
    \/ \E id \in VideoIds : ToggleWatchLater(id) /\ UNCHANGED sideVars

SpecToggle == ToggleInit /\ [][ToggleNext]_vars

\* What the fetch may have loaded, what the lists may hold, what may be typed.
FilterVideoLists ==
    { <<>>, <<AllVideos[1]>>, AllVideos, <<AllVideos[2], AllVideos[1]>> }
FilterLists == { <<>>, <<"v1">>, <<"v3", "v2">> }
FilterQueries == {<<>>, <<"d">>, <<"B", "c">>, <<"A">>, <<"c", "b">>}

FilterInit ==
    /\ impl \in Impls
    /\ alt = None
    /\ \E vids \in FilterVideoLists : \E fav, hist, pl, wl \in FilterLists :
           Loaded(vids, Null, fav, hist, pl,
                  IF impl = "App.tsx" THEN wl ELSE <<>>)

FilterNext ==
    \/ \E tab \in TabIds(impl) : SelectTab(tab) /\ UNCHANGED sideVars
    \/ \E query \in FilterQueries : SetSearchQuery(query) /\ UNCHANGED sideVars

SpecFilter == FilterInit /\ [][FilterNext]_vars

(***************************************************************************)
(* The player of App.tsx: volume, mute, and the keys                       *)
(***************************************************************************)
Max(a, b) == IF a > b THEN a ELSE b

\* adjustVolume(change) run with the volume and isMuted of the render that
\* defined it: the volume and isMuted after it.
adjustVolume(vol, muted, nowMuted, change) ==
    LET newVolume == Max(0, Min(vol + change, 100))
    IN [volume |-> newVolume,
        isMuted |-> IF newVolume = 0 THEN TRUE
                    ELSE IF muted THEN FALSE ELSE nowMuted]

\* The keydown effect (deps [currentVideo]) runs again when currentVideo
\* changed: the listener then closes over the values of this render.
KeydownEffect ==
    keys' = IF currentVideo' # currentVideo
            THEN [volume |-> volume', isMuted |-> isMuted']
            ELSE keys

\* A handler that touches the player only.
PlayerOp ==
    /\ UserOp
    /\ currentVideo # Null
    /\ tog' = None
    /\ UNCHANGED <<currentVideo, searchQuery, activeTab, favorites, history,
                   playlist, watchLater, alt>>
    /\ Rerender(FALSE)
    /\ KeydownEffect

\* ArrowUp (change 10) or ArrowDown (change -10) while a video is open
KeyArrow(change) ==
    /\ PlayerOp
    /\ LET after == adjustVolume(keys.volume, keys.isMuted, isMuted, change)
       IN volume' = after.volume /\ isMuted' = after.isMuted

\* The m key: setIsMuted(prev => !prev)
KeyM ==
    /\ PlayerOp
    /\ isMuted' = ~isMuted
    /\ volume' = volume

\* The mute button: setIsMuted(!isMuted)
MuteButton ==
    /\ PlayerOp
    /\ isMuted' = ~isMuted
    /\ volume' = volume

\* The slider: setVolume(newVolume); setIsMuted(newVolume === 0)
VolumeSlider(newVolume) ==
    /\ PlayerOp
    /\ volume' = newVolume
    /\ isMuted' = (newVolume = 0)

\* A card is clicked, or the player is closed, with the player as it is.
PlayerOpen(video) ==
    PlayVideo(video) /\ UNCHANGED <<alt, volume, isMuted>> /\ KeydownEffect
PlayerClose ==
    CloseVideo /\ UNCHANGED <<alt, volume, isMuted>> /\ KeydownEffect

\* No video is open yet, or one was opened with the player as it was mounted.
PlayerInit ==
    /\ impl = "App.tsx"
    /\ alt = None
    /\ \/ Loaded(AllVideos, Null, <<>>, <<>>, <<>>, <<>>)
       \/ \E k \in 1..Len(AllVideos) :
              Loaded(AllVideos, AllVideos[k], <<>>, <<AllVideos[k].id>>, <<>>,
                     <<>>)

PlayerNext ==
    \/ \E change \in {10, -10} : KeyArrow(change)
    \/ KeyM
    \/ MuteButton
    \/ \E v \in {0, 5, 35, 100} : VolumeSlider(v)
    \/ \E i \in 1..Len(filtered) : PlayerOpen(filtered[i])
    \/ PlayerClose

SpecPlayer == PlayerInit /\ [][PlayerNext]_vars

(***************************************************************************)
(* The two components side by side: App.tsx in the variables of the App,   *)
(* part_001 in alt, both given the operations they share                   *)
(***************************************************************************)
\* part_001 after its first render, over the same storage; playedNext
\* records that Play Next has been clicked.
AltMounted(store) ==
    [currentVideo |-> Null,
     favorites |-> getLocalStorage(store, "favorites"),
     history |-> getLocalStorage(store, "history"),
     playlist |-> getLocalStorage(store, "playlist"),
     activeTab |-> "all",
     playedNext |-> FALSE]

\* The handlers of part_001 on its state
AltSelectTab(a, tab) == [a EXCEPT !.activeTab = tab]
AltPlayVideo(a, video) ==
    [a EXCEPT !.currentVideo = video,
              !.history = playVideoHistory(@, video.id)]
AltToggleFavorite(a, videoId) == [a EXCEPT !.favorites = toggle(@, videoId)]
AltTogglePlaylist(a, videoId) == [a EXCEPT !.playlist = toggle(@, videoId)]
AltClearAllData(a, confirmed) ==
    IF confirmed
    THEN [a EXCEPT !.favorites = <<>>, !.history = <<>>, !.playlist = <<>>,
                   !.activeTab = "all"]
    ELSE a
AltEscape(a) == [a EXCEPT !.currentVideo = Null]
\* Play Next is there when the open video is in the playlist.
AltPlayNext(a, vids) ==
    IF a.currentVideo # Null /\ Includes(a.playlist, a.currentVideo.id)
    THEN [a EXCEPT !.currentVideo = playNextAlt(a.playlist, vids, @),
                   !.playedNext = TRUE]
    ELSE [a EXCEPT !.playedNext = TRUE]

PairInit ==
    /\ impl = "App.tsx"
    /\ \E fav \in {<<>>, <<"v2">>} : \E hist \in {<<>>, <<"v1">>} :
       \E pl \in ListsUpTo(MaxLen) :
           Loaded(AllVideos, Null, fav, hist, pl, <<>>)
    /\ alt = AltMounted(storage)

PairSelectTab(tab) ==
    SelectTab(tab) /\ alt' = AltSelectTab(alt, tab) /\ UNCHANGED playerVars
PairPlayVideo(video) ==
    PlayVideo(video) /\ alt' = AltPlayVideo(alt, video) /\ UNCHANGED playerVars
PairToggleFavorite(videoId) ==
    /\ ToggleFavorite(videoId) /\ alt' = AltToggleFavorite(alt, videoId)
    /\ UNCHANGED playerVars
PairTogglePlaylist(videoId) ==
    /\ TogglePlaylist(videoId) /\ alt' = AltTogglePlaylist(alt, videoId)
    /\ UNCHANGED playerVars
PairClearAllData(confirmed) ==
    /\ ClearAllData(confirmed) /\ alt' = AltClearAllData(alt, confirmed)
    /\ UNCHANGED playerVars
\* The key reaches both, also when only one of them has a video open.
PairEscape == EscapeKey /\ alt' = AltEscape(alt) /\ UNCHANGED playerVars
PairPlayNext ==
    PlayNext /\ alt' = AltPlayNext(alt, videos) /\ UNCHANGED playerVars

PairNext ==
    \/ \E tab \in TabIds("part_001") : PairSelectTab(tab)
    \/ \E i \in 1..Len(filtered) : PairPlayVideo(filtered[i])
    \/ \E id \in VideoIds : PairToggleFavorite(id)
    \/ \E id \in VideoIds : PairTogglePlaylist(id)
    \/ \E confirmed \in BOOLEAN : PairClearAllData(confirmed)
    \/ PairEscape
    \/ PairPlayNext

SpecPair == PairInit /\ [][PairNext]_vars

(***************************************************************************)
(* The handlers of the lists, from a loaded App                            *)
(***************************************************************************)
\* onEnded of the player's iframe: handleVideoEnd, whether or not the open
\* video is in the playlist.
VideoEnd ==
    /\ UserOp
    /\ impl = "App.tsx"
    /\ currentVideo # Null
    /\ tog' = None
    /\ LET next == handleVideoEndNext(playlist, videos, currentVideo)
       IN /\ currentVideo' = next
          /\ history' = IF next # Null
                        THEN playVideoHistory(history, next.id)
                        ELSE history
          /\ UNCHANGED <<searchQuery, activeTab, favorites, playlist,
                         watchLater>>
          /\ Rerender(next # Null /\ ~Includes(history, next.id))

\* playVideo(video) called twice by handlers of one render: both calls read
\* the history of that render, the second updater gets the list the first
\* one made.
PlayVideoTwice(video) ==
    /\ UserOp
    /\ CardShown(video)
    /\ currentVideo' = video
    /\ history' = playVideoSetHistory(
                      history,
                      playVideoSetHistory(history, history, video.id),
                      video.id)
    /\ tog' = None
    /\ UNCHANGED <<searchQuery, activeTab, favorites, playlist, watchLater>>
    /\ Rerender(~Includes(history, video.id))

\* No video is open, or one is, recorded in the history; the playlist holds
\* any list.
ListsInit ==
    /\ impl \in Impls
    /\ alt = None
    /\ \E hist \in {<<>>, <<"v2">>} : \E pl \in ListsUpTo(MaxLen) :
           \/ Loaded(AllVideos, Null, <<>>, hist, pl, <<>>)
           \/ \E k \in 1..Len(AllVideos) :
                  Loaded(AllVideos, AllVideos[k], <<>>,
                         playVideoHistory(hist, AllVideos[k].id), pl, <<>>)

ListsNext ==
    \/ \E i \in 1..Len(filtered) : PlayVideo(filtered[i]) /\ UNCHANGED sideVars
    \/ \E i \in 1..Len(filtered) :
           PlayVideoTwice(filtered[i]) /\ UNCHANGED sideVars
    \/ \E id \in VideoIds : ToggleFavorite(id) /\ UNCHANGED sideVars
    \/ \E id \in VideoIds : TogglePlaylist(id) /\ UNCHANGED sideVars
    \/ \E id \in VideoIds : ToggleWatchLater(id) /\ UNCHANGED sideVars
    \/ \E confirmed \in BOOLEAN : ClearAllData(confirmed) /\ UNCHANGED sideVars
    \/ CloseVideo /\ UNCHANGED sideVars
    \/ PlayNext /\ UNCHANGED sideVars
    \/ VideoEnd /\ UNCHANGED sideVars

SpecLists == ListsInit /\ [][ListsNext]_vars

(***************************************************************************)
(* The lists as they are read when the page is opened                      *)
(***************************************************************************)
\* What a key may hold: the empty string, malformed JSON, and valid JSON of
\* every type.
StoredTexts ==
    { <<>>, <<"[">>, <<"v1">>, <<"[", "v1", "]">>,
      JSONstringify(<<>>), JSONstringify(<<"v1", "v3">>),
      <<"[", "42", "]">>, <<"[", Quote("v1"), ",", "0", "]">>,
      <<"42">>, <<"0">>, <<"null">>, <<"true">>, <<"false">>, <<"{", "}">>,
      <<Quote("v1")>> }

\* Another script of the origin, or the user, sets a key.
StorageWritten(key, text) ==
    /\ ops < MaxOps
    /\ ops' = ops + 1
    /\ storage' = MapSet(storage, key, text)
    /\ UNCHANGED <<impl, videos, currentVideo, searchQuery, favorites, history,
                   playlist, watchLater, activeTab, loading, filtered, timers,
                   loadPc, uncaught, tog, sinceChange, saves, burst, lastSave>>
    /\ UNCHANGED fetchVars
    /\ UNCHANGED sideVars

ReadInit == Init /\ storage = <<>>

ReadNext ==
    \/ \E key \in {"favorites", "watchLater"} : \E text \in StoredTexts :
           StorageWritten(key, text)
    \/ Reload

SpecRead == ReadInit /\ [][ReadNext]_vars

(***************************************************************************)
(* Properties                                                              *)
(***************************************************************************)
Range(list) == {list[i] : i \in 1..Len(list)}

ListNamed(name) ==
    CASE name = "favorites" -> favorites
      [] name = "playlist" -> playlist
      [] name = "watchLater" -> watchLater

ToggledTwice == tog # None /\ tog.count = 2

Without(list, x) == LET Other(id) == id # x IN SelectSeq(list, Other)

\* C1 as stated: two toggles of the same id in succession, by toggleFavorite,
\* togglePlaylist or toggleWatchLater, leave the list exactly as it was
\* before the first, with the same ids in the same order.
C1_ToggleTwiceRestoresList ==
    ToggledTwice => ListNamed(tog.name) = tog.before

\* C1 (amended): two toggles of the same id in succession leave the list with
\* the same set of ids. The list is exactly the one before the first toggle
\* when the id was not in it; when the id was in it, the list is the one
\* before with the id taken out and put at the end.
C1_ToggleTwiceKeepsIds ==
    ToggledTwice =>
        LET list == ListNamed(tog.name)
        IN /\ Range(list) = Range(tog.before)
           /\ ~Includes(tog.before, tog.id) => list = tog.before
           /\ Includes(tog.before, tog.id) =>
                  list = Append(Without(tog.before, tog.id), tog.id)

\* An id that was first in a list of two has been toggled twice.
C1_Witness ==
    /\ ToggledTwice
    /\ Len(tog.before) = 2
    /\ tog.before[1] = tog.id
    /\ ListNamed(tog.name) = <<tog.before[2], tog.id>>

\* Case-insensitive containment, letter by letter.
SameLetter(a, b) ==
    \/ a = b
    \/ \E p \in {<<"a", "A">>, <<"b", "B">>, <<"c", "C">>, <<"d", "D">>} :
           {a, b} = {p[1], p[2]}
ContainsIgnoringCase(str, sub) ==
    \E o \in 0..(Len(str) - Len(sub)) :
        \A j \in 1..Len(sub) : SameLetter(str[o + j], sub[j])

\* The video is to be shown under the active tab and the search query.
ToBeShown(video) ==
    /\ \/ ContainsIgnoringCase(video.title, searchQuery)
       \/ ContainsIgnoringCase(video.description, searchQuery)
    /\ CASE activeTab = "favorites" -> video.id \in Range(favorites)
         [] activeTab = "history" -> video.id \in Range(history)
         [] activeTab = "playlist" -> video.id \in Range(playlist)
         [] activeTab = "watchLater" -> video.id \in Range(watchLater)
         [] OTHER -> TRUE

RECURSIVE Picked(_, _)
\* The elements of vids at the positions from i on that are to be shown.
Picked(vids, i) ==
    IF i > Len(vids) THEN <<>>
    ELSE IF ToBeShown(vids[i]) THEN <<vids[i]>> \o Picked(vids, i + 1)
         ELSE Picked(vids, i + 1)

\* C2: filteredVideos holds exactly the loaded videos whose id is in the list
\* of the active tab (every video under a tab that has no list) and whose
\* title or description contains the search query, case ignored, in the order
\* of the loaded videos; it is never longer than videos.
C2_FilteredVideos ==
    /\ filtered = Picked(videos, 1)
    /\ Len(filtered) <= Len(videos)

\* Under the favorites tab a query in another case than the title's leaves
\* one of the two loaded videos.
C2_Witness ==
    /\ activeTab = "favorites"
    /\ searchQuery = <<"B", "c">>
    /\ Len(videos) = 2
    /\ Len(filtered) = 1
    /\ favorites = <<"v3", "v2">>

\* A caller's invocation: the step that takes a settled slot into a new call.
InvokeStep(c) == Settled(c) /\ calls'[c] # calls[c]

\* The store events for the arguments of a call.
StoredFor(call) ==
    {e \in stored : /\ e.maxResults = call.maxResults
                    /\ e.pageToken = call.pageToken}

KeyOf(call) == CacheKey(call.maxResults, call.pageToken)

\* Arguments over which the cache keys are compared.
KeyArgs ==
    [maxResults : {1, 5, 10, 15, 50}, pageToken : {"", "T0", "T2", "5", "-5", "0-"}]

KeysDiffer ==
    \A a, b \in KeyArgs :
        CacheKey(a.maxResults, a.pageToken) = CacheKey(b.maxResults, b.pageToken)
            => a = b

\* C3 as stated: once a response was stored at time t, every call with the
\* same maxResults and pageToken before t + 5 minutes returns that response
\* and issues no request; a response served from the cache was stored by a
\* call with the same maxResults and pageToken.
C3_EveryStoredResponseServed ==
    [][\A c \in CallIds : InvokeStep(c) =>
          LET call == calls'[c]
          IN /\ \A e \in StoredFor(call) :
                    now < e.at + CACHE_DURATION =>
                        /\ call.pc = "returned"
                        /\ call.result = e.data
                        /\ call.reqs = <<>>
             /\ call.lookup = "hit" =>
                    \E e \in StoredFor(call) : call.result = e.data]_vars

\* C3 (amended): once a response was stored at time t, every call with the
\* same maxResults and pageToken before t + 5 minutes issues no request and
\* returns the response stored last for these arguments: the one stored at
\* t, unless a call that had missed the cache before t stored its own
\* response after t. A response served from the cache was stored by a call
\* with the same maxResults and pageToken; different arguments have
\* different keys.
C3_LastStoredResponseServed ==
    [][/\ KeysDiffer
       /\ \A c \in CallIds : InvokeStep(c) =>
              LET call == calls'[c]
                  last == {e \in StoredFor(call) : e.latest}
              IN /\ \A e \in StoredFor(call) :
                        now < e.at + CACHE_DURATION =>
                            /\ call.pc = "returned"
                            /\ call.reqs = <<>>
                            /\ \E l \in last : call.result = l.data
                 /\ call.lookup = "hit" =>
                        \E l \in last :
                            /\ call.result = l.data
                            /\ cache[KeyOf(call)].timestamp = l.at]_vars

\* A call was served from the cache some time after the response was stored,
\* while the other arguments have a different response in the cache.
C3_Witness ==
    \E c \in CallIds :
        /\ calls[c].lookup = "hit"
        /\ calls[c].reqs = <<>>
        /\ \E e \in StoredFor(calls[c]) : e.at < now /\ calls[c].result = e.data
        /\ \E k \in DOMAIN cache :
               k # KeyOf(calls[c]) /\ cache[k].data # calls[c].result

\* The step in which a call that went to the network returns.
ReturnStep(c) ==
    calls[c].pc \in {"searchBody", "detailsBody"} /\ calls'[c].pc = "returned"

\* What C4 says of hits and of lookups.
C4_Lookup(c) ==
    InvokeStep(c) =>
        LET call == calls'[c]
            key == KeyOf(call)
        IN /\ cache' = cache
           /\ call.lookup = "hit" =>
                  /\ now < cache[key].timestamp + CACHE_DURATION
                  /\ \E e \in StoredFor(call) :
                         e.at = cache[key].timestamp /\ e.data = call.result
           /\ (key \in DOMAIN cache
                  /\ now >= cache[key].timestamp + CACHE_DURATION) =>
                  /\ call.pc = "search"
                  /\ call.lookup = "expired"
                  /\ call.reqs = <<SearchUrl(call.maxResults, call.pageToken)>>

\* C4 as stated: a timestamp is set when the response is stored and a hit
\* leaves it; an entry stored at t is not served at or after t + 5 minutes;
\* such a call fetches again and, when it returns, has replaced the entry
\* by its response with the time of the store.
C4_RefetchAlwaysReplaces ==
    [][\A c \in CallIds :
          /\ C4_Lookup(c)
          /\ (ReturnStep(c) /\ calls[c].lookup = "expired") =>
                 cache'[KeyOf(calls[c])] =
                     [timestamp |-> now, data |-> calls'[c].result]]_vars

\* C4 (amended): as stated, but the call that fetches again replaces the
\* entry only when its search yields a video id; when it yields none, the
\* call returns the empty list and the cache keeps the expired entry.
C4_RefetchReplacesUnlessEmpty ==
    [][\A c \in CallIds :
          /\ C4_Lookup(c)
          /\ (ReturnStep(c) /\ calls[c].pc = "detailsBody") =>
                 cache' = MapSet(cache, KeyOf(calls[c]),
                                 [timestamp |-> now, data |-> calls'[c].result])
          /\ (ReturnStep(c) /\ calls[c].pc = "searchBody") =>
                 /\ cache' = cache
                 /\ calls'[c].result = [videos |-> <<>>]]_vars

\* A call found its entry expired, fetched again and replaced it.
C4_Witness ==
    \E c \in CallIds :
        /\ calls[c].lookup = "expired"
        /\ calls[c].pc = "returned"
        /\ Len(calls[c].reqs) = 2
        /\ now >= CACHE_DURATION
        /\ cache[KeyOf(calls[c])] = [timestamp |-> now, data |-> calls[c].result]

\* A request of the call has just failed.
FailedStep(c) ==
    /\ calls[c].pc \in {"search", "details"}
    /\ calls'[c] # calls[c]
    /\ calls'[c].outcome \in {"rejected", "status"}

\* C5: when the search or the details request fails, by a status that is not
\* ok or by a rejected fetch, the call throws and returns no response, and
\* the cache is as before: the only step of a call that writes the cache is
\* the one in which it returns after its details request.
C5_FailureLeavesCache ==
    [][/\ \A c \in CallIds : FailedStep(c) =>
              /\ calls'[c].pc = "thrown"
              /\ calls'[c].result = None
              /\ cache' = cache
       /\ \A c \in CallIds : (calls'[c].pc = "thrown" /\ calls[c].pc # "thrown") =>
              /\ calls'[c].result = None
              /\ cache' = cache
       /\ cache' # cache =>
              \E c \in CallIds : calls[c].pc = "detailsBody" /\ ReturnStep(c)]_vars

\* The details request of a call failed while the cache held an expired
\* entry for its key.
C5_Witness ==
    \E c \in CallIds :
        /\ calls[c].pc = "thrown"
        /\ Len(calls[c].reqs) = 2
        /\ calls[c].lookup = "expired"
        /\ KeyOf(calls[c]) \in DOMAIN cache
        /\ ~IsFresh(cache[KeyOf(calls[c])], now)

\* The requests of one invocation, in order.
RequestsInOrder(call) ==
    /\ Len(call.reqs) <= 2
    /\ Len(call.reqs) >= 1 =>
           call.reqs[1] = SearchUrl(call.maxResults, call.pageToken)
    /\ Len(call.reqs) = 2 => call.reqs[2].path = "/videos" /\ call.reqs[2].id # ""
    /\ call.pc \in {"search", "searchBody"} => Len(call.reqs) = 1
    /\ call.pc \in {"details", "detailsBody"} =>
           /\ Len(call.reqs) = 2
           /\ call.outcome = "ok"
           /\ call.ids # <<>>
           /\ call.reqs[2].id = Join(call.ids)
    /\ call.lookup = "hit" => call.reqs = <<>>

\* C6: an invocation issues at most one search request and at most one
\* details request; the details request is issued in the step in which the
\* search request settles ok with at least one video id; after a failure the
\* invocation issues no request.
C6_RequestsOrdered ==
    /\ [](\A c \in CallIds : RequestsInOrder(calls[c]))
    /\ [][\A c \in CallIds : ~InvokeStep(c) =>
             /\ calls'[c].reqs # calls[c].reqs =>
                    /\ calls[c].pc = "searchBody"
                    /\ calls'[c].pc = "details"
                    /\ calls'[c].outcome = "ok"
                    /\ calls'[c].reqs = Append(calls[c].reqs,
                                               VideosUrl(Join(calls'[c].ids)))
             /\ calls'[c].pc = "thrown" => calls'[c].reqs = calls[c].reqs]_vars

\* A details request failed after the search had yielded two ids.
C6_Witness ==
    \E c \in CallIds :
        /\ calls[c].pc = "thrown"
        /\ calls[c].reqs = <<SearchUrl(calls[c].maxResults, calls[c].pageToken),
                             VideosUrl("v1,v2")>>

\* saveData of the running component.
Saved(store, snap) ==
    IF impl = "App.tsx" THEN saveData(store, snap) ELSE saveDataAlt(store, snap)

\* A timer has run: it is gone and no other was set.
SaveRan == timers' # timers /\ timers' \subseteq timers

SaveDepsChanged == CurrentSnapshot' # CurrentSnapshot

\* C7: at most one save is pending; a change to favorites, history,
\* playlist, watchLater or activeTab replaces the pending save by one that
\* will write the values after the change; storage is written by a save
\* only, 300 ms or more after the last change and with the current values;
\* no save runs between two changes less than 300 ms apart, and one save
\* runs after the last change.
C7_DebouncedSave ==
    /\ [](/\ Cardinality(timers) <= 1
          /\ saves <= 1
          /\ timers = {} => saves = 1
          /\ \A t \in timers : t.snap = CurrentSnapshot /\ saves = 0)
    /\ [][/\ SaveDepsChanged =>
                /\ timers' = {NewTimer(CurrentSnapshot')}
                /\ storage' = storage
          /\ (SaveDepsChanged /\ sinceChange < DEBOUNCE_MS) => saves = 0
          /\ SaveRan =>
                /\ sinceChange >= DEBOUNCE_MS
                /\ saves = 0
                /\ timers' = {}
                /\ lastSave' = CurrentSnapshot
                /\ storage' = Saved(storage, CurrentSnapshot)
          /\ storage' # storage => SaveRan]_vars

\* Two changes less than 300 ms apart were followed by one save, which wrote
\* the values after the second.
C7_Witness ==
    /\ burst = 2
    /\ saves = 1
    /\ timers = {}
    /\ lastSave = CurrentSnapshot
    /\ CurrentSnapshot # Snapshot(<<>>, <<>>, <<>>, <<>>, "all")
    /\ storage = Saved(<<>>, CurrentSnapshot)

\* The keys of the lists the component persists.
ListKeys ==
    IF impl = "App.tsx" THEN {"favorites", "history", "playlist", "watchLater"}
    ELSE {"favorites", "history", "playlist"}

\* The stored arrays are the lists of the snapshot.
StorageHolds(snap) ==
    \A k \in ListKeys : k \in DOMAIN storage /\ storage[k] = JSONstringify(snap[k])

Converged ==
    /\ lastSave # None
    /\ StorageHolds(lastSave)
    /\ StorageHolds(CurrentSnapshot)

\* C8: while the component stays mounted, the stored arrays under the keys
\* of the lists are always those of the most recent save that ran, and from
\* some point on (when no further change occurs) they are the lists in
\* memory.
C8_StorageConverges ==
    /\ [](lastSave # None => StorageHolds(lastSave))
    /\ <>[]Converged

\* The lists were changed twice and storage holds the changed lists.
C8_Witness ==
    /\ Converged
    /\ ops >= 2
    /\ timers = {}
    /\ history # <<>>
    /\ favorites # <<>>
    /\ storage # Saved(<<>>, Snapshot(<<>>, <<>>, <<>>, <<>>, activeTab))

\* Any list of ids is read back from storage as it was written.
ReadsBack ==
    \A list \in ListsUpTo(MaxLen) :
        getLocalStorage(MapSet(<<>>, "favorites", JSONstringify(list)),
                        "favorites") = list

\* C9: when the application is started again after a save has run, the
\* favorites, history, playlist and watchLater of the new session are the
\* saved lists, element for element and in order.
C9_RoundTrip ==
    [][(Reload /\ lastSave # None) =>
          /\ favorites' = lastSave.favorites
          /\ history' = lastSave.history
          /\ playlist' = lastSave.playlist
          /\ watchLater' = lastSave.watchLater
          /\ ReadsBack]_vars

\* A session that has just started with the history the one before saved
\* (a first session has no video to play before its fetch has settled, so
\* its history is empty or v1, v2 then).
C9_Witness ==
    /\ loadPc = "awaiting"
    /\ videos = <<>>
    /\ lastSave # None
    /\ history = <<"v1">>
    /\ history = lastSave.history
    /\ sinceChange = 0

\* C10: when the fetch of loadData fails, no exception escapes loadData,
\* videos stays the empty list, favorites, history, playlist, watchLater,
\* activeTab and currentVideo are as before, and the session makes no other
\* call of fetchYouTubeVideos.
C10_FailedLoadSwallowed ==
    /\ [](/\ ~uncaught
          /\ (loadPc = "done" /\ calls[1].pc = "thrown") =>
                 videos = <<>> /\ ~loading)
    /\ [][/\ (loadPc = "awaiting" /\ loadPc' = "done" /\ calls[1].pc = "thrown") =>
                /\ videos' = <<>>
                /\ ~uncaught'
                /\ UNCHANGED <<favorites, history, playlist, watchLater,
                               activeTab, currentVideo>>
                /\ calls' = calls
                /\ cache' = cache
          /\ (loadPc = "done" /\ loadPc' = "done") => calls' = calls]_vars

\* loadData is over after its fetch failed; the lists read from storage
\* are there.
C10_Witness ==
    /\ loadPc = "done"
    /\ calls[1].pc = "thrown"
    /\ ~loading
    /\ videos = <<>>
    /\ favorites = <<"v2">>
    /\ \A c \in CallIds \ {1} : calls[c] = IdleCall


\* C11: loading is true from the mount until loadData goes on after its
\* fetch has settled; it is false from then on, whether the fetch returned or
\* threw, in every later state of the session; and once the fetch has
\* settled, loading becomes false.
C11_LoadingFlag ==
    /\ [](loadPc = "awaiting" => loading)
    /\ [](loadPc = "done" => ~loading)
    /\ [][/\ ~loading => ~loading'
          /\ (loading /\ ~loading') => Settled(1) /\ calls' = calls]_vars
    /\ [](Settled(1) => <>(~loading))

\* The fetch returned, loading went false, and the user went on.
C11_Witness ==
    /\ ~loading
    /\ loadPc = "done"
    /\ calls[1].pc = "returned"
    /\ videos # <<>>
    /\ ops >= 1

\* The responses a call that made both requests can build.
CompleteResponses ==
    {BuildResponse(DetailsBody(ExtractIds(b.items)), b) :
         b \in {x \in SearchBodies : ExtractIds(x.items) # <<>>}}

\* The response a call at its second await builds from its own requests.
OwnResponse(call) == BuildResponse(DetailsBody(call.ids), call.searchData)

\* C12 as stated: with overlapping calls, each cache entry is at all times a
\* timestamp and one complete response; the cache changes only in the step
\* in which a call returns from its details request, which puts under the
\* call's key the response built from this call's search and details
\* responses, with the time of the step; and each call returns either the
\* cached response or the response built from its own two requests.
C12_CachedOrOwnTwoRequests ==
    /\ [](\A k \in DOMAIN cache :
             /\ DOMAIN cache[k] = {"timestamp", "data"}
             /\ cache[k].data \in CompleteResponses
             /\ cache[k].timestamp <= now)
    /\ [][/\ \A c \in CallIds :
                /\ ReturnStep(c) =>
                       /\ Len(calls[c].reqs) = 2
                       /\ calls'[c].result = OwnResponse(calls[c])
                       /\ cache' = MapSet(cache, KeyOf(calls[c]),
                                          [timestamp |-> now,
                                           data |-> OwnResponse(calls[c])])
                /\ (InvokeStep(c) /\ calls'[c].pc = "returned") =>
                       calls'[c].result = cache[KeyOf(calls'[c])].data
          /\ cache' # cache =>
                \E c \in CallIds : ReturnStep(c) /\ calls[c].pc = "detailsBody"]_vars

\* C12 (amended): as stated, but a call returns one of three things: the
\* cached response, the response built from its own two requests, or, when
\* its own search yields no video id, the empty list after that one
\* request, which leaves the cache as it is.
C12_NoTornCacheEntry ==
    /\ [](\A k \in DOMAIN cache :
             /\ DOMAIN cache[k] = {"timestamp", "data"}
             /\ cache[k].data \in CompleteResponses
             /\ cache[k].timestamp <= now)
    /\ [][/\ \A c \in CallIds :
                /\ (ReturnStep(c) /\ calls[c].pc = "detailsBody") =>
                       /\ calls'[c].result = OwnResponse(calls[c])
                       /\ cache' = MapSet(cache, KeyOf(calls[c]),
                                          [timestamp |-> now,
                                           data |-> OwnResponse(calls[c])])
                /\ (ReturnStep(c) /\ calls[c].pc = "searchBody") =>
                       /\ calls'[c].result = EmptyResponse
                       /\ Len(calls[c].reqs) = 1
                       /\ cache' = cache
                /\ (InvokeStep(c) /\ calls'[c].pc = "returned") =>
                       calls'[c].result = cache[KeyOf(calls'[c])].data
          /\ cache' # cache =>
                \E c \in CallIds : ReturnStep(c) /\ calls[c].pc = "detailsBody"]_vars

\* Two calls with the same arguments overlapped and their searches were
\* answered differently: one returned the response it had built from its
\* two requests, which the cache holds, the other the empty list after its
\* search alone.
C12_Witness ==
    /\ \A c \in CallIds : calls[c].pc = "returned" /\ calls[c].lookup = "absent"
    /\ KeyOf(calls[1]) = KeyOf(calls[2])
    /\ \E c \in CallIds :
           /\ calls[c].result \in CompleteResponses
           /\ Len(calls[c].reqs) = 2
           /\ cache[KeyOf(calls[c])].data = calls[c].result
           /\ \E o \in CallIds \ {c} :
                  calls[o].result = EmptyResponse /\ Len(calls[o].reqs) = 1

\* The two components agree on what C13 compares.
PairSame ==
    /\ alt.favorites = favorites
    /\ alt.history = history
    /\ alt.playlist = playlist
    /\ alt.activeTab = activeTab
    /\ alt.currentVideo = currentVideo

\* C13 as stated: after every sequence of the shared operations the two
\* components have the same favorites, history, playlist, activeTab and
\* currentVideo.
C13_SameState == PairSame

\* The playlist entry after the first occurrence of the open video is a
\* loaded video.
PlaylistHasNext ==
    \E i \in 1..(Len(playlist) - 1) :
        /\ playlist[i] = currentVideo.id
        /\ \A j \in 1..(i - 1) : playlist[j] # currentVideo.id
        /\ HasVideo(videos, playlist[i + 1])
PlaylistNext ==
    LET i == CHOOSE k \in 1..(Len(playlist) - 1) :
                 /\ playlist[k] = currentVideo.id
                 /\ \A j \in 1..(k - 1) : playlist[j] # currentVideo.id
    IN FindVideo(videos, playlist[i + 1])

\* C13 (amended): after every sequence of select tab, play a video, toggle
\* favorite, toggle playlist, Escape and confirmed or declined clear data,
\* the two components have the same favorites, history, playlist,
\* activeTab and currentVideo. Play Next is where they part: both open the
\* next entry of the playlist when it is a loaded video, and App.tsx also
\* puts it into history; when there is no such entry App.tsx closes the
\* player and part_001 leaves the video open. Favorites, playlist and
\* activeTab stay the same in both.
C13_SameUntilPlayNext ==
    /\ [](~alt.playedNext => PairSame)
    /\ [][(PairSame /\ alt'.playedNext /\ ~alt.playedNext) =>
             /\ alt'.favorites = favorites' /\ favorites' = favorites
             /\ alt'.playlist = playlist' /\ playlist' = playlist
             /\ alt'.activeTab = activeTab' /\ activeTab' = activeTab
             /\ alt'.history = history
             /\ IF PlaylistHasNext
                THEN /\ currentVideo' = PlaylistNext
                     /\ alt'.currentVideo = PlaylistNext
                     /\ history' = IF Includes(history, PlaylistNext.id)
                                   THEN history
                                   ELSE Append(history, PlaylistNext.id)
                ELSE /\ currentVideo' = Null
                     /\ alt'.currentVideo = currentVideo
                     /\ history' = history]_vars

\* Three operations other than Play Next have left a video open and a
\* favorite in both components.
C13_Witness ==
    /\ alt # None
    /\ ~alt.playedNext
    /\ ops >= 3
    /\ PairSame
    /\ currentVideo # Null
    /\ favorites # <<>>
    /\ playlist # <<>>

\* C14 as stated: while a video is open, an ArrowUp press leaves the volume
\* at min(volume + 10, 100) and an ArrowDown press at max(volume - 10, 0),
\* volume being the volume at the moment of the press.
C14_KeysUseCurrentVolume ==
    [][\A change \in {10, -10} :
          KeyArrow(change) => volume' = Max(0, Min(volume + change, 100))]_vars

\* The identical call, were it made right after the step.
IdenticalCallNext(call) == Invoked(call.maxResults, call.pageToken, cache', now)

\* C15 as stated: every call that misses the cache and returns, the one
\* whose search yields no video id too, has stored its response under its
\* key, and the identical call made next issues no request.
C15_EveryReturnStored ==
    [][\A c \in CallIds : ReturnStep(c) =>
          /\ KeyOf(calls[c]) \in DOMAIN cache'
          /\ cache'[KeyOf(calls[c])].data = calls'[c].result
          /\ IdenticalCallNext(calls[c]).reqs = <<>>]_vars

\* C15 (amended): a call that misses the cache and returns after both
\* requests has stored its response under its key, and the identical call
\* made next issues no request. A call whose search yields no video id
\* returns the empty list without the cache step: the cache is as it was,
\* and unless it holds a fresh entry of another call for the key, the
\* identical call made next issues the search request again.
C15_ReturnStoredUnlessEmpty ==
    [][\A c \in CallIds :
          /\ (ReturnStep(c) /\ calls[c].pc = "detailsBody") =>
                 /\ cache'[KeyOf(calls[c])] =
                        [timestamp |-> now, data |-> calls'[c].result]
                 /\ IdenticalCallNext(calls[c]).reqs = <<>>
                 /\ IdenticalCallNext(calls[c]).result = calls'[c].result
          /\ (ReturnStep(c) /\ calls[c].pc = "searchBody") =>
                 /\ calls'[c].result = EmptyResponse
                 /\ cache' = cache
                 /\ (\/ KeyOf(calls[c]) \notin DOMAIN cache
                     \/ ~IsFresh(cache[KeyOf(calls[c])], now)) =>
                        IdenticalCallNext(calls[c]).reqs =
                            <<SearchUrl(calls[c].maxResults,
                                        calls[c].pageToken)>>]_vars

\* A call missed the cache and returned the empty list; the cache has no
\* entry for its key.
C15_Witness ==
    \E c \in CallIds :
        /\ calls[c].pc = "returned"
        /\ calls[c].lookup = "absent"
        /\ calls[c].result = EmptyResponse
        /\ Len(calls[c].reqs) = 1
        /\ KeyOf(calls[c]) \notin DOMAIN cache

FourListKeys == {"favorites", "history", "playlist", "watchLater"}

\* The storage keys outside the set are as they were before the step.
OtherKeysKept(written) ==
    /\ DOMAIN storage' \ written = DOMAIN storage \ written
    /\ \A k \in DOMAIN storage \ written : storage'[k] = storage[k]

\* C16 as stated: a save writes the keys favorites, history, playlist and
\* watchLater and leaves every other key as it was; no other step changes
\* storage.
C16_OnlyFourListsSaved ==
    [][/\ SaveRan => OtherKeysKept(FourListKeys)
       /\ storage' # storage => SaveRan]_vars

\* C16 (amended): a save writes the serialized lists under favorites,
\* history, playlist and (App.tsx only) watchLater, and the active tab as it
\* is under activeTab; every other key is as it was, and no other step
\* changes storage.
C16_ListsAndTabSaved ==
    [][/\ SaveRan =>
             /\ OtherKeysKept(ListKeys \cup {"activeTab"})
             /\ ListKeys \cup {"activeTab"} \subseteq DOMAIN storage'
             /\ storage'["activeTab"] = <<activeTab>>
             /\ \A k \in ListKeys :
                    storage'[k] = JSONstringify(CurrentSnapshot[k])
       /\ storage' # storage => SaveRan]_vars

\* A save has written the tab selected in this session, next to the lists
\* and the key of the other script.
C16_Witness ==
    /\ lastSave # None
    /\ lastSave.activeTab = "favorites"
    /\ {"activeTab", "theme", "favorites"} \subseteq DOMAIN storage
    /\ storage["activeTab"] = <<"favorites">>
    /\ storage["theme"] = <<"dark">>
    /\ storage["favorites"] = JSONstringify(favorites)
    /\ favorites # <<>>

\* C17: no step removes a cache entry; an entry changes only in the step in
\* which a call for its key returns from its details request, so an expired
\* entry stays until then, and that step leaves the entries of the other
\* keys as they were.
C17_NoEviction ==
    [][/\ DOMAIN cache \subseteq DOMAIN cache'
       /\ \A k \in DOMAIN cache :
              cache'[k] # cache[k] =>
                  \E c \in CallIds : /\ ReturnStep(c)
                                     /\ calls[c].pc = "detailsBody"
                                     /\ KeyOf(calls[c]) = k
       /\ \A k \in DOMAIN cache' \ DOMAIN cache :
              \E c \in CallIds : /\ ReturnStep(c)
                                 /\ calls[c].pc = "detailsBody"
                                 /\ KeyOf(calls[c]) = k
       /\ \A c \in CallIds : ReturnStep(c) =>
              \A k \in DOMAIN cache \ {KeyOf(calls[c])} :
                  cache'[k] = cache[k]]_vars

\* An expired entry is still in the map after a call for another key has
\* stored its response.
C17_Witness ==
    \E k1, k2 \in DOMAIN cache :
        /\ k1 # k2
        /\ ~IsFresh(cache[k1], now)
        /\ cache[k2].timestamp > cache[k1].timestamp
        /\ IsFresh(cache[k2], now)

\* A token of a response; undefined when the response has no such field.
TokenOf(response, field) ==
    IF field \in DOMAIN response THEN response[field] ELSE Undefined

\* C18 as stated: the pageToken argument is sent unchanged in the search
\* request; the nextPageToken and prevPageToken of the response a call
\* returns are those of the search response it received; a response served
\* from the cache is the stored one, tokens included.
C18_TokensPassThrough ==
    [][\A c \in CallIds :
          /\ (InvokeStep(c) /\ calls'[c].pc = "search") =>
                 calls'[c].reqs[1].pageToken = calls'[c].pageToken
          /\ (InvokeStep(c) /\ calls'[c].pc = "returned") =>
                 calls'[c].result = cache[KeyOf(calls'[c])].data
          /\ ReturnStep(c) =>
                 LET searchData == IF calls[c].pc = "detailsBody"
                                   THEN calls[c].searchData
                                   ELSE calls'[c].searchData
                 IN \A f \in {"nextPageToken", "prevPageToken"} :
                        TokenOf(calls'[c].result, f) = searchData[f]]_vars

NoRepeat(list) == \A i, j \in 1..Len(list) : list[i] = list[j] => i = j

\* C19 as stated: starting from lists without a repeated id, after any
\* sequence of playVideo, the toggles, Play Next / handleVideoEnd and
\* clearAllData, two playVideo calls for one video within one render
\* included, none of history, favorites, playlist and watchLater holds an id
\* twice.
C19_NoDuplicates ==
    /\ NoRepeat(history)
    /\ NoRepeat(favorites)
    /\ NoRepeat(playlist)
    /\ NoRepeat(watchLater)

\* C20 as stated: in App.tsx, whenever a video is open its id is in history.
C20_OpenVideoInHistory ==
    (impl = "App.tsx" /\ currentVideo # Null) =>
        Includes(history, currentVideo.id)

\* C20, amended: in App.tsx every step that opens a video (a card, Play
\* Next, the end of the video) leaves its id in history, and no step other
\* than a confirmed clearAllData takes the id of the open video out of
\* history.
C20_OpenVideoRecorded ==
    [][impl = "App.tsx" =>
          /\ (currentVideo' # Null /\ currentVideo' # currentVideo) =>
                 Includes(history', currentVideo'.id)
          /\ ( /\ currentVideo # Null
               /\ currentVideo' = currentVideo
               /\ Includes(history, currentVideo.id)
               /\ ~ClearAllData(TRUE) ) =>
                 Includes(history', currentVideo.id)]_vars

\* The open video was opened by the handlers, after another one, and is the
\* last of the history; clearAllData was offered all along.
C20_Witness ==
    /\ impl = "App.tsx"
    /\ ops >= 2
    /\ currentVideo # Null
    /\ Len(history) >= 2
    /\ history[Len(history)] = currentVideo.id
    /\ NoRepeat(history)

\* The video that follows the open one along the playlist: the loaded video
\* whose id is at the index after that of the open video, Null when the open
\* video is not in the playlist, is its last, or is followed by an id of no
\* loaded video.
FollowingInPlaylist ==
    LET i == FindIndex(playlist, currentVideo.id)
    IN IF /\ Includes(playlist, currentVideo.id)
          /\ i + 1 < Len(playlist)
          /\ HasVideo(videos, playlist[i + 2])
       THEN FindVideo(videos, playlist[i + 2])
       ELSE Null

\* C21 as stated: in App.tsx handleVideoEnd (the end of the video, or Play
\* Next) makes the video that follows the open one along the playlist the
\* current video, and closes the player when there is none: the open video
\* is the last of the playlist, is not in the playlist, or is followed by an
\* id of no loaded video.
C21_AdvancesAlongPlaylist ==
    [][(impl = "App.tsx" /\ (PlayNext \/ VideoEnd)) =>
           currentVideo' = FollowingInPlaylist]_vars

AllEmpty ==
    favorites = <<>> /\ history = <<>> /\ playlist = <<>> /\ watchLater = <<>>

\* The store holds the empty array under each of the keys.
StoredEmpty(store, written) ==
    \A k \in written : k \in DOMAIN store /\ store[k] = JSONstringify(<<>>)

\* What a step of clearAllData does in memory: confirmed, the four lists are
\* empty and the tab is 'all', the videos and the open video are as they
\* were, and the save of the emptied lists is the one pending; declined,
\* nothing of the state and nothing in storage changes.
ClearInMemory ==
    /\ ClearAllData(TRUE) =>
           /\ AllEmpty'
           /\ activeTab' = "all"
           /\ UNCHANGED <<videos, currentVideo, searchQuery, loading, storage>>
           /\ timers' = {NewTimer(Snapshot(<<>>, <<>>, <<>>, <<>>, "all"))}
    /\ ClearAllData(FALSE) =>
           UNCHANGED <<videos, currentVideo, searchQuery, favorites, history,
                       playlist, watchLater, activeTab, loading, filtered,
                       storage, timers>>

\* C22 as stated: clearAllData is all or nothing in memory, and once the
\* lists are empty the save after the debounce leaves the empty array under
\* every one of the four keys favorites, history, playlist and watchLater.
C22_FourStoredListsEmptied ==
    /\ [][/\ ClearInMemory
          /\ (SaveRan /\ AllEmpty) => StoredEmpty(storage', FourListKeys)]_vars
    /\ (AllEmpty ~> (StoredEmpty(storage, FourListKeys) \/ ~AllEmpty))

\* C22 (amended): clearAllData is all or nothing in memory, and once the
\* lists are empty the save after the debounce leaves the empty array under
\* every key the component persists: favorites, history, playlist and, in
\* App.tsx only, watchLater; every other key is as it was.
C22_StoredListsEmptied ==
    /\ [][/\ ClearInMemory
          /\ (SaveRan /\ AllEmpty) =>
                 /\ StoredEmpty(storage', ListKeys)
                 /\ OtherKeysKept(ListKeys \cup {"activeTab"})]_vars
    /\ (AllEmpty ~> (StoredEmpty(storage, ListKeys) \/ ~AllEmpty))

\* The lists an earlier visit had stored were cleared, and the save after the
\* debounce has run: storage holds the empty arrays.
C22_Witness ==
    /\ "theme" \in DOMAIN storage
    /\ ops >= 1
    /\ AllEmpty
    /\ activeTab = "all"
    /\ timers = {}
    /\ lastSave = CurrentSnapshot
    /\ StoredEmpty(storage, ListKeys)

\* The state hook a key is read into.
HookOf(key) ==
    CASE key = "favorites" -> favorites
      [] key = "history" -> history
      [] key = "playlist" -> playlist
      [] key = "watchLater" -> watchLater

\* C23 as stated: whatever a key holds (nothing, the empty string, malformed
\* JSON, valid JSON of any type), getLocalStorage returns an array of
\* strings, the stored array when the key holds a serialized array of
\* strings and the empty list otherwise; so when the page is opened each
\* list of the component is an array of strings.
C23_ReadsArraysOfStrings ==
    [][Reload =>
          \A key \in ListKeys :
              LET r == getLocalStorageReturn(storage, key)
              IN /\ r.type = "string[]"
                 /\ HookOf(key)' = r.value]_vars

\* C24 as stated: after every ArrowUp or ArrowDown, whatever mute toggles
\* came before, the volume is within 0..100 and isMuted is true exactly when
\* the volume is 0; raising the volume above 0 while muted unmutes.
C24_MutedIffVolumeZero ==
    [][(\E change \in {10, -10} : KeyArrow(change)) =>
           /\ volume' \in 0..100
           /\ isMuted' <=> (volume' = 0)]_vars

\* C25: activeTab is 'all' when a session starts, whatever storage holds
\* under activeTab; it changes only when a tab is selected, when
\* clearAllData is confirmed, or when a new session starts; and it is always
\* the id of one of the rendered tabs.
C25_ActiveTab ==
    /\ activeTab = "all"
    /\ [](/\ activeTab \in TabIds(impl)
          /\ TabIds(impl) \subseteq
                 {"all", "favorites", "history", "playlist", "watchLater"})
    /\ [][/\ Reload => activeTab' = "all"
          /\ activeTab' # activeTab =>
                 \/ \E tab \in TabIds(impl) : SelectTab(tab)
                 \/ ClearAllData(TRUE)
                 \/ Reload]_vars

\* A session saved the tab favorites, and the session opened after it starts
\* with 'all' while storage still holds favorites.
C25_Witness ==
    /\ ops >= 2
    /\ burst = 0
    /\ loadPc = "awaiting"
    /\ lastSave # None
    /\ lastSave.activeTab = "favorites"
    /\ "activeTab" \in DOMAIN storage
    /\ storage["activeTab"] = <<"favorites">>
    /\ activeTab = "all"

====
